---- MODULE Spec2Model ----
(***************************************************************************)
(* A model of obsidian.py: the plain Queue and the PointerBasedQueue       *)
(* (obsidian/queue.py), and the node registry, node connection, websocket  *)
(* and per-guild sessions (obsidian/pool.py, node.py, websocket.py,        *)
(* player.py, errors.py).                                                  *)
(*                                                                         *)
(* Python's None is the empty sequence <<>> and a present value v is the   *)
(* one-element sequence <<v>>, wherever a field is Optional[int]; a track  *)
(* is a string and None among tracks is the string "None".  Track defines  *)
(* no __eq__, so two tracks are equal exactly when they are the same       *)
(* object: the same string here.                                           *)
(***************************************************************************)
EXTENDS Integers, Sequences, FiniteSets, TLC

\* ------------------------------------------------------------- bounds
\* Longest sequence of tracks a queue holds in the model.
MaxLen == 3
\* Largest pointer value from which get()/skip() are still explored.
MaxPtr == 4
\* Longest run of consecutive get() calls that is counted.
MaxGets == 5
\* Longest playlist or iterable handed to add()/extend().
MaxPlaylist == 2
\* Largest max_size a plain Queue is constructed with.
MaxCap == 2
\* Sessions (players) alive at once, over all nodes.
MaxSessions == 2
\* Player objects built for one guild in one run.
MaxObjs == 3
\* Length of the track played, in milliseconds.
TrackLen == 3
\* Milliseconds the clock advances in one run.
MaxTicks == 3
\* Handler tasks created and not yet run.
MaxTasks == 2
\* time.time() * 1000 when the run starts: far beyond any track length.
Epoch == 10

Tracks == {"A", "B"}
NoTrack == "None"
None == <<>>
Some(v) == <<v>>
Val(o) == o[1]

LoopTypes == {"NONE", "TRACK", "QUEUE"}

Idents == {"MAIN", "ALT"}
NodeIds == {1, 2}
WsIds == {1, 2}
Guilds == {1, 2}
NoNode == [ident |-> "-", ws |-> 0, task |-> 0]
NoWs == [node |-> 0, sock |-> "none", recv |-> 0]
NLastInit ==
    [op |-> "init", n |-> 0, arg |-> <<>>, hs |-> "-", raised |-> "none",
     original |-> "-", pre_pool |-> [i \in Idents |-> 0], pre_ws |-> 0, pre_sock |-> "none",
     pre_guilds |-> {}, done |-> {}, frames |-> <<>>]

\* The classes a session is built with: Player, and a subclass of it.
PlayerClasses == {"Player", "Custom"}
\* Track ids a PLAYER_UPDATE names, and the payloads of STATS messages.
TrackIds == {"T", "U"}
StatsPayloads == {"s1", "s2"}
\* data.get('session_id') of a voice-state update ("-": None) and the data of
\* a voice-server update
SessionIdArgs == {"-", "s1", "s2"}
ServerUpdates == {"v1", "v2"}
\* Player.__init__: the attributes of a Player just built (id 0: no object)
NoSess ==
    [id |-> 0, cls |-> "-", channel |-> FALSE, protocol |-> FALSE,
     session_id |-> "-", vsu |-> "-", current |-> <<>>, position |-> 0,
     last_update |-> 0, last_position |-> <<>>, paused |-> FALSE, track_id |-> <<>>]
NoMsg == [op |-> "-", d |-> "-", track |-> "-", position |-> 0, paused |-> FALSE]
SLastInit == [op |-> "init", arg |-> <<>>, ret |-> 0, raised |-> "none", frames |-> <<>>,
              pre |-> NoSess]

\* filters.py _FILTERS: the kinds in the order to_json walks them
FILTERS ==
    <<"volume", "timescale", "karaoke", "channel_mix", "vibrato", "rotation",
      "low_pass", "tremolo", "equalizer", "distortion">>
\* The kinds of the filters the calls are made with, and their raw values
\* 1..MaxRaw (0 stands for "no filter of the kind").
MaxRaw == 2
FilterKinds == {"equalizer", "volume", "vibrato"}
FilterObjs == [kind : FilterKinds, raw : 1..MaxRaw]
FLastInit == [op |-> "init", ret |-> <<>>, raised |-> "none"]
NoUpd == [conn |-> FALSE, frames |-> <<>>]
\* HTTPClient: the shared secret, the default of max_retries, the largest
\* max_retries a call is made with, and the responses the backend can give
Password == "pw"
DefaultRetries == 3
MaxRetries == 3
Statuses == {200, 299, 300, 404}
Bodies == {"a", "b"}
Responses == [status : Statuses, body : Bodies]
NoResponse == [status |-> 0, body |-> "-"]
NoReq ==
    [pc |-> "idle", via |-> "-", method |-> "-", route |-> "-", max_retries |-> 0,
     headers |-> <<>>, sent |-> <<>>, got |-> <<>>]
HLastInit == [op |-> "init", ret |-> <<>>, raised |-> "none", response |-> NoResponse]
\* The receive loop and reconnection: the most connection losses and the most
\* connect tasks pending at one time that are explored, and the most failed
\* reconnection attempts that are counted
MaxDrops == 2
MaxConn == 2
MaxFails == 2
\* a node that was never told to connect
NoRws == [node |-> FALSE, handle |-> "none", leak |-> 0, recv |-> 0, sleep |-> 0, conn |-> 0]
REnvInit == [backend |-> "up", drops |-> 0, fails |-> 0]
RLastInit == [op |-> "init", ok |-> TRUE, caller |-> "none"]
\* Player events: the most listeners registered under one name and the most
\* scheduled tasks pending that are explored
MaxListeners == 2
MaxPending == 3
\* enums.EventType: the values
EventTypes ==
    {"TRACK_START", "TRACK_END", "TRACK_STUCK", "TRACK_EXCEPTION",
     "WEBSOCKET_OPEN", "WEBSOCKET_CLOSED"}
\* the names listeners are registered under
ListenerNames == {"obsidian_track_start", "obsidian_websocket_closed"}
\* what a PLAYER_EVENT payload holds under 't' and under 'type' ("-": no
\* such key)
TypeStrings == {"-", "TRACK_START", "WEBSOCKET_CLOSED", "FOO"}
EventData == [t : TypeStrings, type : TypeStrings]
\* the tasks that run filter operations of one session, and a task that has
\* not been given one
FilterTasks == {1, 2}
NoEdit == [op |-> "-", by |-> "-", kind |-> "-", raw |-> 0]
NoFilterTask == [pc |-> "idle", edit |-> NoEdit, raised |-> "none", over |-> FALSE]
\* no Player constructed yet, and no call made on it
NoPlayer == [exists |-> FALSE, stored |-> FALSE, channel |-> FALSE, protocol |-> FALSE,
             current |-> FALSE]
DLastInit == [op |-> "init", force |-> FALSE, pre |-> NoPlayer, conn |-> FALSE,
              raised |-> "none", frames |-> <<>>]
\* the tasks that call initiate_node, one that has not called it, and the
\* number of node objects built in one run
InitiateTasks == {1, 2}
NoInitiate == [pc |-> "idle", id |-> "-", obj |-> 0, raised |-> "none", over |-> FALSE]
MaxBuilt == 4
\* PresetPlayer: the wait_timeout its constructor stores, in seconds, the
\* values it is constructed with, and the player before its construction
StoredWaitTimeout == 180
WaitTimeouts == {1, 2}
NoPreset == [built |-> FALSE, given |-> 0, wait_timeout |-> 0, q |-> <<>>, cur |-> <<>>,
             clock |-> 0, due |-> <<>>, destroyed |-> FALSE]
PrLastInit == [op |-> "init", track |-> "None", raised |-> "none", frames |-> <<>>,
               created |-> FALSE, cancelled |-> FALSE]
ELastInit ==
    [op |-> "init", data |-> [t |-> "-", type |-> "-"], built |-> "-",
     raised |-> "none", sched |-> <<>>]

VARIABLES
    \* PointerBasedQueue: Queue.__queue, __current, __loop_type
    queue, current, loop_type,
    \* what the last PointerBasedQueue call did: its name, arguments, the
    \* pointer and sequence before it, the pointer right after the advance of
    \* get()/skip(), the value returned and the exception raised
    qlast,
    \* the number of get() calls made since the pointer was None with nothing
    \* but get() calls in between (None once another call has moved the pointer)
    gets,
    \* the track the last get() returned while only get() calls followed it
    \* (NoTrack when there is none), and the same when any call but skip, jump,
    \* insert, remove and set_loop_type may follow it
    held, heldLoose,
    \* plain Queue: Queue.__queue, Queue.__max_size, and the last call
    pq, pq_max, plast,
    \* NodePool._nodes: identifier -> node object (0: no entry)
    pool_nodes,
    \* the node objects constructed so far: _identifier, __ws (the Websocket
    \* object, 0 for None) and __task (BaseNode's own attribute: the Websocket
    \* object whose receive loop it holds, 0 for None)
    node,
    \* the Websocket objects: the node each was built for (0: not built), its
    \* aiohttp socket (__ws: "none", "open" or "closed"), and the number of
    \* receive-loop tasks (Websocket.listen) alive on it
    wsock,
    \* BaseNode._players of each node: the sessions in insertion order
    players,
    \* what the last call or event on the node layer was and what it did
    nlast,
    \* one guild's session on one node: the Player stored in node._players for
    \* the guild (NoSess: none), and the number of Player objects built for it
    sess, nobj,
    \* whether that node is connected (BaseNode.connected)
    link,
    \* the node's statistics: the attribute BaseNode.stats returns, and the
    \* attribute Node.handle_ws_response assigns
    stats,
    \* the handler tasks Websocket.listen has created and the loop has not run
    \* yet, in the order of their creation
    tasks,
    \* time.time() * 1000
    now,
    \* the last PLAYER_UPDATE applied to the stored session with paused false
    \* and the time it was applied, while no call followed it (else None);
    \* the last PLAYER_UPDATE received for the session, while no local call
    \* changed what it reports (else None)
    upd, lastmsg,
    \* what the last call on the session layer was and what it did
    slast,
    \* FilterSink.__filters: the dict as its items in insertion order
    fsink,
    \* per kind, the raw value of the filter added last and not removed since
    \* by a call that returned (0: none); whether every call so far returned;
    \* what the last FilterSink call was and what it returned or raised
    fghost, fnormal, flast,
    \* the last filter operation of the session: whether the node was connected
    \* when it was called, and the frames it sent
    fupd,
    \* the HTTPClient.request call in progress: where it is, the method it was
    \* made through, its arguments, the requests it has sent and the responses
    \* it has received
    hreq,
    \* how the last HTTPClient.request call ended
    hlast,
    \* one node and the Websocket object it holds: whether BaseNode.__ws is
    \* set, the state of the socket in Websocket.__ws ("none", "open",
    \* "closed"), the number of open sockets no attribute refers to any more,
    \* the number of Websocket.listen tasks waiting in receive() and sleeping
    \* in the backoff delay, and the number of Websocket.connect tasks the
    \* receive loops created that have not finished
    rws,
    \* the backend: whether it accepts connections, and counters of the
    \* connection losses and of the failed reconnection attempts so far
    renv,
    \* the last step of connecting: what it was, whether it succeeded, and the
    \* exception it raised to its caller
    rlast,
    \* BaseNode.__listeners__: the number of listeners under each name
    elisteners,
    \* the tasks BaseNode.dispatch_event created that have not run yet
    esched,
    \* the last Player.dispatch_event call or task run: the payload, the class
    \* of the event built ("-": none), the exception raised, the tasks created
    elast,
    \* the filter operations of one session running as tasks: for each task
    \* where it is ("idle", "sending": suspended in send_str, "done"), the edit
    \* it makes, the exception it raised and whether the other task was
    \* suspended in its own operation when this one was called
    ftasks,
    \* the payload of the last PLAYER_FILTERS frame written to the socket
    \* (None: no frame yet)
    fwire,
    \* one Player object and its place in the node: whether node._players
    \* holds it under its guild, whether _channel and the protocol are set and
    \* whether it has a current track
    dsess,
    \* the last call on that Player: its name and argument, the Player before
    \* it, whether the node was connected, the exception raised and the frames
    \* sent
    dlast,
    \* NodePool._nodes as seen by concurrent initiate_node calls: the node
    \* object registered under each identifier (0: none), the number of node
    \* objects built, and the registered objects that were replaced
    ipool,
    \* the initiate_node calls running as tasks: where each is ("idle",
    \* "connecting": suspended in node.connect(), "done"), its identifier, the
    \* node it built, the exception raised and whether another call for the
    \* same identifier was connecting when it was made
    itasks,
    \* one PresetPlayer: whether it is constructed, the wait_timeout it was
    \* given and the one it keeps, its queue and the queue's pointer, the time
    \* in seconds, when the pending destroy task is due (None: no task
    \* pending) and whether the player was destroyed
    preset,
    \* the last PresetPlayer call: its name, the track the queue returned, the
    \* exception raised, the frames sent, and whether a destroy task was
    \* created and whether one was cancelled
    prlast

qvars == <<queue, current, loop_type, qlast, gets, held, heldLoose>>
pvars == <<pq, pq_max, plast>>
nvars == <<pool_nodes, node, wsock, players, nlast>>
svars == <<sess, nobj, link, stats, tasks, now, upd, lastmsg, slast>>
fvars == <<fsink, fghost, fnormal, flast, fupd>>
hvars == <<hreq, hlast>>
rvars == <<rws, renv, rlast>>
\* the layers modelled after the HTTP layer
evars == <<elisteners, esched, elast>>
\* the layers modelled after the events layer
cvars == <<ftasks, fwire>>
dvars == <<dsess, dlast>>
ivars == <<ipool, itasks>>
kvars == <<preset, prlast>>
yvars == <<cvars, dvars, ivars, kvars>>
\* for each of these layers, the others
cother == <<dvars, ivars, kvars>>
dother == <<cvars, ivars, kvars>>
iother == <<cvars, dvars, kvars>>
kother == <<cvars, dvars, ivars>>
ovars == <<rvars, evars, yvars>>
\* the layers above the node layer
xvars == <<svars, fvars, hvars, ovars>>
vars == <<queue, current, loop_type, qlast, gets, held, heldLoose, pq, pq_max, plast,
          pool_nodes, node, wsock, players, nlast,
          sess, nobj, link, stats, tasks, now, upd, lastmsg, slast,
          fsink, fghost, fnormal, flast, fupd, hreq, hlast, rws, renv, rlast,
          elisteners, esched, elast, ftasks, fwire,
          dsess, dlast, ipool, itasks, preset, prlast>>

\* ------------------------------------------------- sequences as deques
SeqsUpTo(S, n) == UNION {[1..k -> S] : k \in 0..n}

\* deque.__getitem__: indices -len..len-1 are valid, None is a TypeError
InRange(q, i) == -Len(q) <= i /\ i < Len(q)
At(q, i) == IF i >= 0 THEN q[i + 1] ELSE q[Len(q) + i + 1]

\* deque.insert(index, x): the index is clamped like list.insert
InsertPos(q, i) ==
    IF i >= 0 THEN (IF i > Len(q) THEN Len(q) ELSE i)
    ELSE (IF Len(q) + i < 0 THEN 0 ELSE Len(q) + i)
InsertAt(q, i, x) ==
    LET p == InsertPos(q, i)
    IN  SubSeq(q, 1, p) \o <<x>> \o SubSeq(q, p + 1, Len(q))

\* del deque[index], for a valid index
DeleteAt(q, i) ==
    LET p == IF i >= 0 THEN i + 1 ELSE Len(q) + i + 1
    IN  SubSeq(q, 1, p - 1) \o SubSeq(q, p + 1, Len(q))

\* deque.remove(x): the first occurrence; 0 when x is not in q
FirstIndex(q, x) ==
    IF \E j \in 1..Len(q) : q[j] = x
    THEN CHOOSE j \in 1..Len(q) : q[j] = x /\ \A h \in 1..(j - 1) : q[h] # x
    ELSE 0

\* ------------------------------------------------- PointerBasedQueue
\* PointerBasedQueue.current (property): self[self.__current]
Current(q, cur) ==
    IF cur = None THEN [raised |-> "TypeError", val |-> NoTrack]
    ELSE IF InRange(q, Val(cur)) THEN [raised |-> "none", val |-> At(q, Val(cur))]
    ELSE [raised |-> "IndexError", val |-> NoTrack]

\* a get() that takes 1, not 0, as the first index
AdvanceGet_FromOne(cur, lt) ==
    IF cur = None THEN Some(1)
    ELSE IF lt # "TRACK" THEN Some(Val(cur) + 1)
    ELSE cur

\* a get() that advances under a TRACK loop too
AdvanceGet_Always(cur, lt) ==
    IF cur = None THEN Some(0) ELSE Some(Val(cur) + 1)

\* get(): the advance, lines 328-332
AdvanceGet(cur, lt) ==
    IF cur = None THEN Some(0)
    ELSE IF lt # "TRACK" THEN Some(Val(cur) + 1)
    ELSE cur

\* a skip() that honours the TRACK loop as get() does
AdvanceSkip_HonoursLoop(cur, lt) ==
    IF cur = None THEN Some(0)
    ELSE IF lt # "TRACK" THEN Some(Val(cur) + 1)
    ELSE cur

\* skip(): the advance, lines 353-356 (the loop type is not consulted)
AdvanceSkip(cur, lt) ==
    IF cur = None THEN Some(0) ELSE Some(Val(cur) + 1)

\* a resolve whose IndexError handler never rewinds
Resolve_NoRewind(q, cur, lt) ==
    LET c == Current(q, cur)
    IN  IF c.raised = "none" THEN [cur |-> cur, ret |-> c.val, raised |-> "none"]
        ELSE [cur |-> cur, ret |-> NoTrack, raised |-> "none"]

\* get()/skip(): the try/except that resolves the track, given the advanced
\* pointer.  In the IndexError handler a QUEUE loop rewinds to 0 and reads
\* again, and an IndexError raised there (an empty queue) propagates.
Resolve(q, cur, lt) ==
    LET c == Current(q, cur)
    IN  IF c.raised = "none" THEN [cur |-> cur, ret |-> c.val, raised |-> "none"]
        ELSE IF lt = "QUEUE"
        THEN LET c0 == Current(q, Some(0))
             IN  [cur |-> Some(0), ret |-> c0.val, raised |-> c0.raised]
        ELSE [cur |-> cur, ret |-> NoTrack, raised |-> "none"]

GetOutcome(q, cur, lt) == Resolve(q, AdvanceGet(cur, lt), lt)
SkipOutcome(q, cur, lt) == Resolve(q, AdvanceSkip(cur, lt), lt)

\* Bookkeeping of a history that began with a null pointer and holds nothing
\* but get() calls under loop type NONE and add() calls at the right end:
\* <<k, dry>>, the number k of tracks get() has returned (the first k of the
\* sequence) and whether a get() has returned None; None for any other
\* history.
NextHist(op, arg, ret, raised) ==
    LET h == qlast.hist
    IN  IF op \in {"reset", "clear"} THEN <<0, FALSE>>
        ELSE IF h = None THEN None
        ELSE IF op = "get"
        THEN IF loop_type # "NONE" \/ raised # "none" THEN None
             ELSE IF ret # NoTrack THEN <<h[1] + 1, h[2]>>
             ELSE <<h[1], TRUE>>
        ELSE IF op = "add" THEN (IF arg[2] THEN None ELSE h)
        ELSE None

QLast(op, arg, adv, ret, raised) ==
    [op |-> op, arg |-> arg, pre |-> current, preq |-> queue,
     adv |-> adv, ret |-> ret, raised |-> raised,
     hist |-> NextHist(op, arg, ret, raised), phist |-> qlast.hist]

\* the run of get() calls: a call that is not get() ends it, and a null
\* pointer starts a new one
Fresh(cur) == IF cur = None THEN Some(0) ELSE None

\* the model explores get()/skip() while the pointer is below MaxPtr
WithinBound(cur) == IF cur = None THEN TRUE ELSE Val(cur) < MaxPtr

PBQ_get ==
    /\ WithinBound(current)
    /\ IF gets = None THEN TRUE ELSE Val(gets) < MaxGets
    /\ LET o == GetOutcome(queue, current, loop_type)
       IN  /\ current' = o.cur
           /\ qlast' = QLast("get", None, AdvanceGet(current, loop_type), o.ret, o.raised)
           /\ gets' = IF gets = None THEN None ELSE Some(Val(gets) + 1)
           /\ held' = IF o.raised = "none" THEN o.ret ELSE NoTrack
           /\ heldLoose' = IF o.raised = "none" THEN o.ret ELSE NoTrack
    /\ UNCHANGED <<queue, loop_type>>
    /\ UNCHANGED pvars
    /\ UNCHANGED nvars
    /\ UNCHANGED xvars

PBQ_skip ==
    /\ WithinBound(current)
    /\ LET o == SkipOutcome(queue, current, loop_type)
       IN  /\ current' = o.cur
           /\ qlast' = QLast("skip", None, AdvanceSkip(current, loop_type), o.ret, o.raised)
    /\ gets' = None
    /\ held' = NoTrack
    /\ heldLoose' = NoTrack
    /\ UNCHANGED <<queue, loop_type>>
    /\ UNCHANGED pvars
    /\ UNCHANGED nvars
    /\ UNCHANGED xvars

\* Queue.add(track, left=...) on a PointerBasedQueue built with max_size=None:
\* never full; the pointer is not touched
PBQ_add(t, left) ==
    /\ Len(queue) < MaxLen
    /\ queue' = IF left THEN <<t>> \o queue ELSE Append(queue, t)
    /\ qlast' = QLast("add", <<t, left>>, None, NoTrack, "none")
    /\ gets' = Fresh(current)
    /\ held' = NoTrack
    /\ UNCHANGED <<current, loop_type, heldLoose>>
    /\ UNCHANGED pvars
    /\ UNCHANGED nvars
    /\ UNCHANGED xvars

\* reset()
PBQ_reset ==
    /\ current' = None
    /\ qlast' = QLast("reset", None, None, NoTrack, "none")
    /\ gets' = Some(0)
    /\ held' = NoTrack
    /\ UNCHANGED <<queue, loop_type, heldLoose>>
    /\ UNCHANGED pvars
    /\ UNCHANGED nvars
    /\ UNCHANGED xvars

\* clear(): the pointer first, then Queue.clear()
PBQ_clear ==
    /\ current' = None
    /\ queue' = <<>>
    /\ qlast' = QLast("clear", None, None, NoTrack, "none")
    /\ gets' = Some(0)
    /\ held' = NoTrack
    /\ UNCHANGED <<loop_type, heldLoose>>
    /\ UNCHANGED pvars
    /\ UNCHANGED nvars
    /\ UNCHANGED xvars

\* set_loop_type(new)
PBQ_set_loop_type(new) ==
    /\ loop_type' = new
    /\ qlast' = QLast("set_loop_type", <<new>>, None, NoTrack, "none")
    /\ gets' = Fresh(current)
    /\ held' = NoTrack
    /\ heldLoose' = NoTrack
    /\ UNCHANGED <<queue, current>>
    /\ UNCHANGED pvars
    /\ UNCHANGED nvars
    /\ UNCHANGED xvars

\* Indices a caller passes to insert, remove and jump.
Indices == (-(MaxLen + 1))..(MaxLen + 1)

\* The argument of remove: <<"index", i>> for an int, <<"track", t>> for a track.
RemoveArgs == {<<"index", i>> : i \in Indices} \cup {<<"track", t>> : t \in Tracks}

\* Queue.remove(track_or_index) on the underlying deque: del q[index] for an
\* int, deque.remove(track) for a track
QueueRemove(q, x) ==
    IF x[1] = "index"
    THEN IF InRange(q, x[2]) THEN [q |-> DeleteAt(q, x[2]), raised |-> "none"]
         ELSE [q |-> q, raised |-> "IndexError"]
    ELSE IF FirstIndex(q, x[2]) # 0
         THEN [q |-> DeleteAt(q, FirstIndex(q, x[2]) - 1), raised |-> "none"]
         ELSE [q |-> q, raised |-> "ValueError"]

\* PointerBasedQueue.remove: reads self.current (which raises on a None or
\* out-of-range pointer), removes, reads self.current again (which raises
\* IndexError when the pointer is now past the end) and decrements the
\* pointer when the two tracks differ
RemoveOutcome(q, cur, x) ==
    LET before == Current(q, cur)
        r == QueueRemove(q, x)
        after == Current(r.q, cur)
    IN  IF before.raised # "none" THEN [q |-> q, cur |-> cur, raised |-> before.raised]
        ELSE IF r.raised # "none" THEN [q |-> q, cur |-> cur, raised |-> r.raised]
        ELSE IF after.raised # "none" THEN [q |-> r.q, cur |-> cur, raised |-> after.raised]
        ELSE IF after.val # before.val THEN [q |-> r.q, cur |-> Some(Val(cur) - 1), raised |-> "none"]
        ELSE [q |-> r.q, cur |-> cur, raised |-> "none"]

\* PointerBasedQueue.insert: Queue.insert (max_size is None: never full), then
\* index <= self.__current, a TypeError on a None pointer
InsertOutcome(q, cur, i, t) ==
    IF cur = None THEN [q |-> InsertAt(q, i, t), cur |-> cur, raised |-> "TypeError"]
    ELSE IF i <= Val(cur) THEN [q |-> InsertAt(q, i, t), cur |-> Some(Val(cur) + 1), raised |-> "none"]
    ELSE [q |-> InsertAt(q, i, t), cur |-> cur, raised |-> "none"]

\* PointerBasedQueue.jump: the pointer is set first, then self.current is read
JumpOutcome(q, i) ==
    LET c == Current(q, Some(i))
    IN  [cur |-> Some(i), ret |-> c.val, raised |-> c.raised]

PBQ_remove(x) ==
    /\ LET o == RemoveOutcome(queue, current, x)
       IN  /\ queue' = o.q
           /\ current' = o.cur
           /\ qlast' = QLast("remove", x, None, NoTrack, o.raised)
    /\ gets' = Fresh(current')
    /\ held' = NoTrack
    /\ heldLoose' = NoTrack
    /\ UNCHANGED loop_type
    /\ UNCHANGED pvars
    /\ UNCHANGED nvars
    /\ UNCHANGED xvars

PBQ_insert(i, t) ==
    /\ Len(queue) < MaxLen
    /\ LET o == InsertOutcome(queue, current, i, t)
       IN  /\ queue' = o.q
           /\ current' = o.cur
           /\ qlast' = QLast("insert", <<i, t>>, None, NoTrack, o.raised)
    /\ gets' = Fresh(current')
    /\ held' = NoTrack
    /\ heldLoose' = NoTrack
    /\ UNCHANGED loop_type
    /\ UNCHANGED pvars
    /\ UNCHANGED nvars
    /\ UNCHANGED xvars

PBQ_jump(i) ==
    /\ LET o == JumpOutcome(queue, i)
       IN  /\ current' = o.cur
           /\ qlast' = QLast("jump", <<i>>, None, o.ret, o.raised)
    /\ gets' = None
    /\ held' = NoTrack
    /\ heldLoose' = NoTrack
    /\ UNCHANGED <<queue, loop_type>>
    /\ UNCHANGED pvars
    /\ UNCHANGED nvars
    /\ UNCHANGED xvars

\* A PointerBasedQueue() as constructed (no tracks, no pointer) with any
\* default_loop_type; the plain Queue is left as Queue(None).
InitPBQ ==
    /\ queue = <<>>
    /\ current = None
    /\ loop_type \in LoopTypes
    /\ qlast = [op |-> "init", arg |-> None, pre |-> None, preq |-> <<>>,
                adv |-> None, ret |-> NoTrack, raised |-> "none",
                hist |-> <<0, FALSE>>, phist |-> <<0, FALSE>>]
    /\ gets = Some(0)
    /\ held = NoTrack
    /\ heldLoose = NoTrack
    /\ pq = <<>>
    /\ pq_max = None
    /\ plast = [op |-> "init", kind |-> "none", n |-> 0, pre |-> <<>>, raised |-> "none"]
    /\ pool_nodes = [i \in Idents |-> 0]
    /\ node = [n \in NodeIds |-> NoNode]
    /\ wsock = [w \in WsIds |-> NoWs]
    /\ players = [n \in NodeIds |-> <<>>]
    /\ nlast = NLastInit
    /\ sess = NoSess
    /\ nobj = 0
    /\ link = FALSE
    /\ stats = [base |-> None, node |-> None]
    /\ tasks = <<>>
    /\ now = Epoch
    /\ upd = None
    /\ lastmsg = None
    /\ slast = SLastInit
    /\ fsink = <<>>
    /\ fghost = [k \in FilterKinds |-> 0]
    /\ fnormal = TRUE
    /\ flast = FLastInit
    /\ fupd = NoUpd
    /\ hreq = NoReq
    /\ hlast = HLastInit
    /\ rws = NoRws
    /\ renv = REnvInit
    /\ rlast = RLastInit
    /\ elisteners = [n \in ListenerNames |-> 0]
    /\ esched = <<>>
    /\ elast = ELastInit
    /\ ftasks = [t \in FilterTasks |-> NoFilterTask]
    /\ fwire = None
    /\ dsess = NoPlayer
    /\ dlast = DLastInit
    /\ ipool = [nodes |-> [i \in Idents |-> 0], built |-> 0, replaced |-> {}]
    /\ itasks = [t \in InitiateTasks |-> NoInitiate]
    /\ preset = NoPreset
    /\ prlast = PrLastInit

\* --------------------------------------------------------- plain Queue
\* Queue.full
Full_OffByOne(q, m) == IF m = None THEN FALSE ELSE Len(q) > Val(m)

Full(q, m) == IF m = None THEN FALSE ELSE Len(q) >= Val(m)

\* Queue.add(track, left=...) for a Track
AddTrack(q, m, t, left) ==
    IF Full(q, m) THEN [q |-> q, raised |-> "QueueFull"]
    ELSE [q |-> IF left THEN <<t>> \o q ELSE Append(q, t), raised |-> "none"]

\* Queue.extend(tracks): add() for each track in turn; the first QueueFull
\* ends the loop and what was added before it stays
RECURSIVE Extend(_, _, _)
Extend(q, m, ts) ==
    IF ts = <<>> THEN [q |-> q, raised |-> "none"]
    ELSE LET a == AddTrack(q, m, Head(ts), FALSE)
         IN  IF a.raised # "none" THEN a ELSE Extend(a.q, m, Tail(ts))

\* Queue.add: a Playlist extends the queue by its tracks (left is ignored)
\* An argument is <<"track", t>> or <<"playlist", tracks>>.
Add(q, m, x, left) ==
    IF x[1] = "playlist" THEN Extend(q, m, x[2]) ELSE AddTrack(q, m, x[2], left)

\* Queue.insert: a Playlist is a TypeError, a full queue is QueueFull
Insert(q, m, i, x) ==
    IF x[1] = "playlist" THEN [q |-> q, raised |-> "TypeError"]
    ELSE IF Full(q, m) THEN [q |-> q, raised |-> "QueueFull"]
    ELSE [q |-> InsertAt(q, i, x[2]), raised |-> "none"]

\* Queue.pop(index): popleft for 0, pop for -1, else q[index] then remove(index)
Pop(q, i) ==
    IF InRange(q, i) THEN [q |-> DeleteAt(q, i), ret |-> At(q, i), raised |-> "none"]
    ELSE [q |-> q, ret |-> NoTrack, raised |-> "IndexError"]

TrackArgs == {<<"track", t>> : t \in Tracks}
PlaylistArgs == {<<"playlist", ts>> : ts \in SeqsUpTo(Tracks, MaxPlaylist)}
ArgCount(x) == IF x[1] = "playlist" THEN Len(x[2]) ELSE 1

\* the model explores a Queue(None) up to MaxLen tracks
Room(q, m, n) == IF m = None THEN Len(q) + n <= MaxLen ELSE TRUE

PLast(op, x, raised) ==
    [op |-> op, kind |-> x[1], n |-> ArgCount(x), pre |-> pq, raised |-> raised]

Queue_add(x, left) ==
    /\ Room(pq, pq_max, ArgCount(x))
    /\ LET o == Add(pq, pq_max, x, left)
       IN  /\ pq' = o.q
           /\ plast' = PLast("add", x, o.raised)
    /\ UNCHANGED pq_max
    /\ UNCHANGED qvars
    /\ UNCHANGED nvars
    /\ UNCHANGED xvars

Queue_insert(i, x) ==
    /\ Room(pq, pq_max, 1)
    /\ LET o == Insert(pq, pq_max, i, x)
       IN  /\ pq' = o.q
           /\ plast' = PLast("insert", x, o.raised)
    /\ UNCHANGED pq_max
    /\ UNCHANGED qvars
    /\ UNCHANGED nvars
    /\ UNCHANGED xvars

Queue_extend(ts) ==
    /\ Room(pq, pq_max, Len(ts))
    /\ LET o == Extend(pq, pq_max, ts)
       IN  /\ pq' = o.q
           /\ plast' = PLast("extend", <<"playlist", ts>>, o.raised)
    /\ UNCHANGED pq_max
    /\ UNCHANGED qvars
    /\ UNCHANGED nvars
    /\ UNCHANGED xvars

Queue_pop(i) ==
    /\ LET o == Pop(pq, i)
       IN  /\ pq' = o.q
           /\ plast' = PLast("pop", <<"index", i>>, o.raised)
    /\ UNCHANGED pq_max
    /\ UNCHANGED qvars
    /\ UNCHANGED nvars
    /\ UNCHANGED xvars

\* Queue.get(): self.pop()
Queue_get ==
    /\ LET o == Pop(pq, 0)
       IN  /\ pq' = o.q
           /\ plast' = PLast("get", <<"none">>, o.raised)
    /\ UNCHANGED pq_max
    /\ UNCHANGED qvars
    /\ UNCHANGED nvars
    /\ UNCHANGED xvars

Queue_remove(x) ==
    /\ LET o == QueueRemove(pq, x)
       IN  /\ pq' = o.q
           /\ plast' = PLast("remove", x, o.raised)
    /\ UNCHANGED pq_max
    /\ UNCHANGED qvars
    /\ UNCHANGED nvars
    /\ UNCHANGED xvars

Queue_clear ==
    /\ pq' = <<>>
    /\ plast' = PLast("clear", <<"none">>, "none")
    /\ UNCHANGED pq_max
    /\ UNCHANGED qvars
    /\ UNCHANGED nvars
    /\ UNCHANGED xvars

\* A Queue(max_size) as constructed, for max_size None or 0..MaxCap; the
\* PointerBasedQueue is left as constructed.
InitQueue ==
    /\ queue = <<>>
    /\ current = None
    /\ loop_type = "NONE"
    /\ qlast = [op |-> "init", arg |-> None, pre |-> None, preq |-> <<>>,
                adv |-> None, ret |-> NoTrack, raised |-> "none",
                hist |-> <<0, FALSE>>, phist |-> <<0, FALSE>>]
    /\ gets = Some(0)
    /\ held = NoTrack
    /\ heldLoose = NoTrack
    /\ pq = <<>>
    /\ pq_max \in {None} \cup {Some(m) : m \in 0..MaxCap}
    /\ plast = [op |-> "init", kind |-> "none", n |-> 0, pre |-> <<>>, raised |-> "none"]
    /\ pool_nodes = [i \in Idents |-> 0]
    /\ node = [n \in NodeIds |-> NoNode]
    /\ wsock = [w \in WsIds |-> NoWs]
    /\ players = [n \in NodeIds |-> <<>>]
    /\ nlast = NLastInit
    /\ sess = NoSess
    /\ nobj = 0
    /\ link = FALSE
    /\ stats = [base |-> None, node |-> None]
    /\ tasks = <<>>
    /\ now = Epoch
    /\ upd = None
    /\ lastmsg = None
    /\ slast = SLastInit
    /\ fsink = <<>>
    /\ fghost = [k \in FilterKinds |-> 0]
    /\ fnormal = TRUE
    /\ flast = FLastInit
    /\ fupd = NoUpd
    /\ hreq = NoReq
    /\ hlast = HLastInit
    /\ rws = NoRws
    /\ renv = REnvInit
    /\ rlast = RLastInit
    /\ elisteners = [n \in ListenerNames |-> 0]
    /\ esched = <<>>
    /\ elast = ELastInit
    /\ ftasks = [t \in FilterTasks |-> NoFilterTask]
    /\ fwire = None
    /\ dsess = NoPlayer
    /\ dlast = DLastInit
    /\ ipool = [nodes |-> [i \in Idents |-> 0], built |-> 0, replaced |-> {}]
    /\ itasks = [t \in InitiateTasks |-> NoInitiate]
    /\ preset = NoPreset
    /\ prlast = PrLastInit

NextQueue ==
    \/ \E x \in TrackArgs \cup PlaylistArgs, left \in BOOLEAN : Queue_add(x, left)
    \/ \E i \in Indices, x \in TrackArgs \cup PlaylistArgs : Queue_insert(i, x)
    \/ \E ts \in SeqsUpTo(Tracks, MaxPlaylist) : Queue_extend(ts)
    \/ \E i \in Indices : Queue_pop(i)
    \/ Queue_get
    \/ \E x \in RemoveArgs : Queue_remove(x)
    \/ Queue_clear

SpecQueue == InitQueue /\ [][NextQueue]_vars

\* ------------------------------------------------------------ errors.py
\* The classes an exception of class cls is an instance of.
Bases(cls) ==
    CASE cls = "ObsidianAuthorizationFailure" ->
             {"ObsidianAuthorizationFailure", "ObsidianConnectionFailure",
              "ObsidianException", "Exception"}
      [] cls = "ObsidianConnectionFailure" ->
             {"ObsidianConnectionFailure", "ObsidianException", "Exception"}
      [] cls = "NodeNotConnected" -> {"NodeNotConnected", "ObsidianException", "Exception"}
      [] cls = "NodeAlreadyExists" ->
             {"NodeAlreadyExists", "NodeCreationError", "ObsidianException", "Exception"}
      [] OTHER -> {cls, "Exception"}
IsInstance(cls, base) == base \in Bases(cls)

\* ObsidianConnectionFailure(node, error): original is the error wrapped
ConnectionFailure(error) == [cls |-> "ObsidianConnectionFailure", original |-> error]

\* ObsidianAuthorizationFailure(node): __new__ returns
\* ObsidianConnectionFailure.from_message(node, message), which builds the
\* instance with cls.__new__(cls) for cls = ObsidianConnectionFailure and sets
\* original to None
AuthorizationFailure == [cls |-> "ObsidianConnectionFailure", original |-> "None"]

\* ---------------------------------------------------------- websocket.py
\* What session.ws_connect does: it returns a socket, or raises
\* WSServerHandshakeError with status 4001 or with another status, or raises
\* another error (a refused connection).
Handshakes == {"ok", "WSServerHandshakeError:4001", "WSServerHandshakeError",
               "ClientConnectorError"}

\* Websocket.connect: the exception that leaves it.  A handler's own raise is
\* not caught by the except clause that follows it, so Exception(exc) leaves
\* as it is.
ConnectRaises(hs) ==
    CASE hs = "ok" -> [cls |-> "none", original |-> "-"]
      [] hs = "WSServerHandshakeError:4001" -> AuthorizationFailure
      [] hs = "WSServerHandshakeError" -> [cls |-> "Exception", original |-> "-"]
      [] OTHER -> ConnectionFailure(hs)

\* Websocket.connected
WsConnected(w) == wsock[w].sock = "open"

\* a node that counts as connected as soon as it holds a Websocket object
NodeConnected_HandleOnly(n) == node[n].ws # 0

\* BaseNode.connected
NodeConnected(n) ==
    IF node[n].ws = 0 THEN FALSE ELSE WsConnected(node[n].ws)

\* enums.OpCode: the value of each member
OpValue(name) ==
    CASE name = "SUBMIT_VOICE_UPDATE" -> 0
      [] name = "STATS" -> 1
      [] name = "SETUP_RESUMING" -> 2
      [] name = "SETUP_DISPATCH_BUFFER" -> 3
      [] name = "PLAYER_EVENT" -> 4
      [] name = "PLAYER_UPDATE" -> 5
      [] name = "PLAY_TRACK" -> 6
      [] name = "STOP_TRACK" -> 7
      [] name = "PLAYER_PAUSE" -> 8
      [] name = "PLAYER_FILTERS" -> 9
      [] name = "PLAYER_SEEK" -> 10
      [] name = "PLAYER_DESTROY" -> 11
      [] name = "PLAYER_CONFIGURE" -> 12

\* send(): an op is <<"enum", name>> or <<"int", value>>; the frame written
\* is the JSON text of {'op': op, 'd': data}
Frame(op, data) ==
    [op |-> IF op[1] = "int" THEN op[2] ELSE OpValue(op[2]), d |-> data]

SendOps == {<<"enum", "PLAYER_DESTROY">>, <<"int", 7>>}
Payloads == {"d1"}

\* ------------------------------------------------------- object identity
Constructed(n) == node[n].ident # "-"
FreeNodes == {n \in NodeIds : ~Constructed(n)}
FreeNode == CHOOSE n \in FreeNodes : \A m \in FreeNodes : n <= m

\* A Websocket object nothing refers to any more (no node holds it and no
\* receive loop runs on it) is garbage; its slot is free again.
Collect(ws, nd) ==
    [w \in WsIds |->
        IF ws[w].recv = 0 /\ \A n \in NodeIds : nd[n].ws # w
        THEN NoWs ELSE ws[w]]
FreeWss == {w \in WsIds : wsock[w].node = 0}
FreeWs == CHOOSE w \in FreeWss : \A v \in FreeWss : w <= v

NL(op, n, arg) == [NLastInit EXCEPT !.op = op, !.n = n, !.arg = arg]

\* --------------------------------------------------------------- pool.py
\* identifier in self._nodes: None is never a key of the map
InPool(id) == IF id = None THEN FALSE ELSE pool_nodes[Val(id)] # 0

\* BaseNode.__init__: self._identifier = identifier or 'MAIN'
Identifier(id) == IF id = None THEN "MAIN" ELSE Val(id)

\* Node.connect on node n with a new Websocket object w: self.__ws is set
\* first, then Websocket.connect either fails or starts the receive loop
\* (stored in an attribute of the node named for the Websocket class, not in
\* BaseNode's __task) and keeps the socket.
Connect(nd, ws, n, w, hs) ==
    IF hs = "ok"
    THEN [node |-> [nd EXCEPT ![n].ws = w],
          wsock |-> [ws EXCEPT ![w] = [node |-> n, sock |-> "open", recv |-> 1]]]
    ELSE [node |-> [nd EXCEPT ![n].ws = w],
          wsock |-> [ws EXCEPT ![w] = [node |-> n, sock |-> "none", recv |-> 0]]]

\* NodePool.initiate_node(bot, ..., identifier=id, cls=...)
Pool_initiate_node(id, cls_ok, hs) ==
    /\ UNCHANGED <<qvars, pvars>>
    /\ UNCHANGED xvars
    /\ LET e == ConnectRaises(hs)
           base == [NL("initiate_node", 0, <<id>>) EXCEPT !.pre_pool = pool_nodes]
       IN
        IF ~cls_ok
        THEN /\ hs = "ok"
             /\ nlast' = [base EXCEPT !.arg = <<>>, !.raised = "TypeError"]
             /\ UNCHANGED <<pool_nodes, node, wsock, players>>
        ELSE IF InPool(id)
        THEN /\ nlast' = [base EXCEPT !.raised = "NodeAlreadyExists"]
             /\ UNCHANGED <<pool_nodes, node, wsock, players>>
        ELSE /\ FreeNodes # {} /\ FreeWss # {}
             /\ IF hs = "ok"
                THEN LET n == FreeNode
                         c == Connect([node EXCEPT ![n].ident = Identifier(id)],
                                      wsock, n, FreeWs, hs)
                     IN  /\ node' = c.node
                         /\ wsock' = c.wsock
                         /\ pool_nodes' = [pool_nodes EXCEPT ![Identifier(id)] = n]
                         /\ nlast' = [base EXCEPT !.n = n, !.hs = hs]
                ELSE \* the node built is never registered nor returned
                     /\ nlast' = [base EXCEPT !.arg = <<>>, !.hs = hs, !.raised = e.cls,
                                              !.original = e.original]
                     /\ UNCHANGED <<pool_nodes, node, wsock>>
             /\ UNCHANGED players

\* BaseNode.connect() called on a node the caller holds
Node_connect(n, hs) ==
    /\ Constructed(n)
    /\ LET freed == Collect(wsock, [node EXCEPT ![n].ws = 0])
           free == {w \in WsIds : freed[w].node = 0}
       IN  /\ free # {}
           /\ LET w == CHOOSE w \in free : \A v \in free : w <= v
                  c == Connect(node, freed, n, w, hs)
                  e == ConnectRaises(hs)
              IN  /\ node' = c.node
                  /\ wsock' = c.wsock
                  /\ nlast' = [NL("connect", n, <<>>) EXCEPT
                                  !.hs = hs, !.raised = e.cls, !.original = e.original,
                                  !.pre_ws = node[n].ws]
    /\ UNCHANGED <<pool_nodes, players>>
    /\ UNCHANGED <<qvars, pvars>>
    /\ UNCHANGED xvars

\* BaseNode.send(op, data)
Node_send(n, op, data) ==
    /\ Constructed(n)
    /\ nlast' = [NL("send", n, <<op, data>>) EXCEPT
                    !.pre_ws = node[n].ws,
                    !.pre_sock = IF node[n].ws = 0 THEN "none" ELSE wsock[node[n].ws].sock,
                    !.raised = IF NodeConnected(n) THEN "none" ELSE "NodeNotConnected",
                    !.frames = IF NodeConnected(n) THEN <<Frame(op, data)>> ELSE <<>>]
    /\ UNCHANGED <<pool_nodes, node, wsock, players>>
    /\ UNCHANGED <<qvars, pvars>>
    /\ UNCHANGED xvars

\* The peer closes the connection, or the connection is lost.
PeerClose(w) ==
    /\ wsock[w].sock = "open"
    /\ wsock' = [wsock EXCEPT ![w].sock = "closed"]
    /\ nlast' = NL("peer_close", wsock[w].node, <<>>)
    /\ UNCHANGED <<pool_nodes, node, players>>
    /\ UNCHANGED <<qvars, pvars>>
    /\ UNCHANGED xvars

\* ------------------------------------------------------------ sessions
SessionIndex(ps, g) ==
    IF \E j \in 1..Len(ps) : ps[j].guild = g
    THEN CHOOSE j \in 1..Len(ps) : ps[j].guild = g
    ELSE 0
SessionCount == Len(players[1]) + Len(players[2])
GuildsOf(ps) == {ps[j].guild : j \in 1..Len(ps)}

\* BaseNode.get_player(guild) for a guild with no session yet
Node_get_player(n, g) ==
    /\ Constructed(n)
    /\ SessionCount < MaxSessions
    /\ SessionIndex(players[n], g) = 0
    /\ players' = [players EXCEPT ![n] =
                      Append(@, [guild |-> g, protocol |-> FALSE, channel |-> FALSE])]
    /\ nlast' = NL("get_player", n, <<g>>)
    /\ UNCHANGED <<pool_nodes, node, wsock>>
    /\ UNCHANGED <<qvars, pvars>>
    /\ UNCHANGED xvars

\* Player.connect(channel): the channel is set and the Protocol is created
Player_connect(n, g) ==
    /\ SessionIndex(players[n], g) # 0
    /\ ~players[n][SessionIndex(players[n], g)].channel
    /\ players' = [players EXCEPT ![n][SessionIndex(players[n], g)] =
                      [@ EXCEPT !.protocol = TRUE, !.channel = TRUE]]
    /\ nlast' = NL("player_connect", n, <<g>>)
    /\ UNCHANGED <<pool_nodes, node, wsock>>
    /\ UNCHANGED <<qvars, pvars>>
    /\ UNCHANGED xvars

\* ------------------------------------------------- disconnect and destroy
\* task.cancel() for a receive loop on Websocket object w
Cancel(ws, w) ==
    IF w = 0 THEN ws
    ELSE IF ws[w].recv > 0 THEN [ws EXCEPT ![w].recv = @ - 1]
    ELSE ws

\* BaseNode.disconnect(force): the state it leaves and the exception, if any.
\*   - the socket is closed if the node is connected;
\*   - for player in self._players.values(): Player.disconnect raises
\*     ValueError for a session with no Protocol or no channel; otherwise
\*     Protocol.disconnect (the node is not connected by now, so nothing is
\*     sent) deletes the session from self._players, and the dict iterator
\*     then raises RuntimeError (dictionary changed size during iteration);
\*   - with no session at all: self.__ws = None, and BaseNode's __task, if
\*     set and not done, is cancelled.
Disconnect(n, force) ==
    LET w == node[n].ws
        closed == IF NodeConnected(n) THEN [wsock EXCEPT ![w].sock = "closed"] ELSE wsock
        ps == players[n]
    IN  IF ps = <<>>
        THEN [node |-> [node EXCEPT ![n].ws = 0, ![n].task = 0],
              wsock |-> Collect(Cancel(closed, node[n].task), [node EXCEPT ![n].ws = 0]),
              players |-> players, done |-> {}, raised |-> "none"]
        ELSE IF ~ps[1].protocol \/ ~ps[1].channel
        THEN [node |-> node, wsock |-> closed, players |-> players,
              done |-> {}, raised |-> "ValueError"]
        ELSE [node |-> node, wsock |-> closed,
              players |-> [players EXCEPT ![n] = Tail(ps)],
              done |-> {ps[1].guild}, raised |-> "RuntimeError"]

NLDisconnect(op, n, force, raised, done) ==
    [NL(op, n, <<force>>) EXCEPT
        !.raised = raised, !.done = done, !.pre_pool = pool_nodes,
        !.pre_ws = node[n].ws,
        !.pre_sock = IF node[n].ws = 0 THEN "none" ELSE wsock[node[n].ws].sock,
        !.pre_guilds = GuildsOf(players[n])]

Node_disconnect(n, force) ==
    /\ Constructed(n)
    /\ LET o == Disconnect(n, force)
       IN  /\ node' = o.node
           /\ wsock' = o.wsock
           /\ players' = o.players
           /\ nlast' = NLDisconnect("disconnect", n, force, o.raised, o.done)
    /\ UNCHANGED pool_nodes
    /\ UNCHANGED <<qvars, pvars>>
    /\ UNCHANGED xvars

\* BaseNode.destroy(force): disconnect, then del NodePool._nodes[identifier]
Node_destroy(n, force) ==
    /\ Constructed(n)
    /\ LET o == Disconnect(n, force)
           registered == pool_nodes[node[n].ident] # 0
           raised == IF o.raised # "none" THEN o.raised
                     ELSE IF registered THEN "none" ELSE "KeyError"
       IN  /\ node' = o.node
           /\ wsock' = o.wsock
           /\ players' = o.players
           /\ pool_nodes' = IF raised = "none"
                            THEN [pool_nodes EXCEPT ![node[n].ident] = 0]
                            ELSE pool_nodes
           /\ nlast' = NLDisconnect("destroy", n, force, raised, o.done)
    /\ UNCHANGED <<qvars, pvars>>
    /\ UNCHANGED xvars

\* No node, no Websocket and no session yet; the queues are left as constructed.
InitNode ==
    /\ queue = <<>>
    /\ current = None
    /\ loop_type = "NONE"
    /\ qlast = [op |-> "init", arg |-> None, pre |-> None, preq |-> <<>>,
                adv |-> None, ret |-> NoTrack, raised |-> "none",
                hist |-> <<0, FALSE>>, phist |-> <<0, FALSE>>]
    /\ gets = Some(0)
    /\ held = NoTrack
    /\ heldLoose = NoTrack
    /\ pq = <<>>
    /\ pq_max = None
    /\ plast = [op |-> "init", kind |-> "none", n |-> 0, pre |-> <<>>, raised |-> "none"]
    /\ pool_nodes = [i \in Idents |-> 0]
    /\ node = [n \in NodeIds |-> NoNode]
    /\ wsock = [w \in WsIds |-> NoWs]
    /\ players = [n \in NodeIds |-> <<>>]
    /\ nlast = NLastInit
    /\ sess = NoSess
    /\ nobj = 0
    /\ link = FALSE
    /\ stats = [base |-> None, node |-> None]
    /\ tasks = <<>>
    /\ now = Epoch
    /\ upd = None
    /\ lastmsg = None
    /\ slast = SLastInit
    /\ fsink = <<>>
    /\ fghost = [k \in FilterKinds |-> 0]
    /\ fnormal = TRUE
    /\ flast = FLastInit
    /\ fupd = NoUpd
    /\ hreq = NoReq
    /\ hlast = HLastInit
    /\ rws = NoRws
    /\ renv = REnvInit
    /\ rlast = RLastInit
    /\ elisteners = [n \in ListenerNames |-> 0]
    /\ esched = <<>>
    /\ elast = ELastInit
    /\ ftasks = [t \in FilterTasks |-> NoFilterTask]
    /\ fwire = None
    /\ dsess = NoPlayer
    /\ dlast = DLastInit
    /\ ipool = [nodes |-> [i \in Idents |-> 0], built |-> 0, replaced |-> {}]
    /\ itasks = [t \in InitiateTasks |-> NoInitiate]
    /\ preset = NoPreset
    /\ prlast = PrLastInit

NextNode ==
    \/ \E id \in {None} \cup {Some(i) : i \in Idents}, cls_ok \in BOOLEAN,
          hs \in Handshakes : Pool_initiate_node(id, cls_ok, hs)
    \/ \E n \in NodeIds, hs \in Handshakes : Node_connect(n, hs)
    \/ \E n \in NodeIds, op \in SendOps, d \in Payloads : Node_send(n, op, d)
    \/ \E w \in WsIds : PeerClose(w)
    \/ \E n \in NodeIds, g \in Guilds : Node_get_player(n, g)
    \/ \E n \in NodeIds, g \in Guilds : Player_connect(n, g)
    \/ \E n \in NodeIds, force \in BOOLEAN : Node_disconnect(n, force)
    \/ \E n \in NodeIds, force \in BOOLEAN : Node_destroy(n, force)

SpecNode == InitNode /\ [][NextNode]_vars

\* --------------------------------------------------- sessions: player.py
\* Track.length of the track played
Length == TrackLen

\* Player.connected, Player.playing
PlayerConnected(s) == s.channel
Playing(s) == PlayerConnected(s) /\ s.current # None

Min(a, b) == IF a <= b THEN a ELSE b

\* Player.position read at time t
Position(s, t) ==
    IF ~Playing(s) THEN 0
    ELSE IF s.paused THEN Min(s.position, Length)
    ELSE LET position == s.position + (t - s.last_update)
         IN  IF position > Length THEN 0 ELSE position

\* Player.update_state(data) at time t (the frame statistics are left out)
UpdateState(s, m, t) ==
    [s EXCEPT !.last_update = t, !.track_id = Some(m.track),
              !.last_position = Some(m.position), !.paused = m.paused]

\* node.send(op, data) from a session: NodeNotConnected unless connected
SSend(op, data) ==
    IF link THEN [raised |-> "none", frames |-> <<Frame(<<"enum", op>>, data)>>]
    ELSE [raised |-> "NodeNotConnected", frames |-> <<>>]

SL(op, arg, ret, raised, frames) ==
    [op |-> op, arg |-> arg, ret |-> ret, raised |-> raised, frames |-> frames,
     pre |-> NoSess]

\* BaseNode.get_player(guild, cls, must_exist): the Player returned (0: None)
\* and the Player stored afterwards
GetPlayer(cls, must_exist) ==
    IF sess.id = 0
    THEN IF must_exist
         THEN [ret |-> 0, stored |-> sess, built |-> 0]
         ELSE [ret |-> nobj + 1,
               stored |-> [NoSess EXCEPT !.id = nobj + 1, !.cls = cls], built |-> 1]
    ELSE IF sess.cls # cls
    THEN \* a new Player of class cls is built and returned; self._players
         \* keeps the one it holds
         [ret |-> nobj + 1, stored |-> sess, built |-> 1]
    ELSE [ret |-> sess.id, stored |-> sess, built |-> 0]

S_get_player(cls, must_exist) ==
    /\ LET o == GetPlayer(cls, must_exist)
       IN  /\ nobj + o.built <= MaxObjs
           /\ sess' = o.stored
           /\ nobj' = nobj + o.built
           /\ lastmsg' = IF sess.id = 0 THEN None ELSE lastmsg
           /\ slast' = SL("get_player", <<cls, must_exist>>, o.ret, "none", <<>>)
    /\ UNCHANGED <<link, stats, tasks, now, upd>>
    /\ UNCHANGED <<qvars, pvars, nvars, fvars, hvars, ovars>>

\* The first get_player(guild, cls) call for the guild.
S_create_player(cls) ==
    /\ sess.id = 0
    /\ S_get_player(cls, FALSE)

\* Player.connect(channel)
S_connect ==
    /\ sess.id # 0
    /\ ~sess.channel
    /\ sess' = [sess EXCEPT !.channel = TRUE, !.protocol = TRUE]
    /\ upd' = None
    /\ slast' = SL("connect", <<>>, 0, "none", <<>>)
    /\ UNCHANGED <<nobj, link, stats, tasks, now, lastmsg>>
    /\ UNCHANGED <<qvars, pvars, nvars, fvars, hvars, ovars>>

\* _session_id and _voice_server_update_data: "-" is None
Present(x) == x # "-"

\* a dispatch_voice_update that sends as soon as the session id is present
DispatchVoiceUpdate_SessionOnly(s) ==
    IF ~Present(s.session_id)
    THEN [raised |-> "none", frames |-> <<>>]
    ELSE SSend("SUBMIT_VOICE_UPDATE", <<"voice", s.session_id, s.vsu>>)

\* Player.dispatch_voice_update on session s: the payload is the session id
\* together with the items of the server-update data
DispatchVoiceUpdate(s) ==
    IF ~Present(s.session_id) \/ ~Present(s.vsu)
    THEN [raised |-> "none", frames |-> <<>>]
    ELSE SSend("SUBMIT_VOICE_UPDATE", <<"voice", s.session_id, s.vsu>>)

\* a voice-state update without a channel that leaves the credentials
VoiceLeft_KeepsCredentials(s) == [s EXCEPT !.channel = FALSE]

\* Protocol.on_voice_state_update, no channel_id: _channel, _session_id and
\* _voice_server_update_data are set to None
VoiceLeft(s) == [s EXCEPT !.channel = FALSE, !.session_id = "-", !.vsu = "-"]

\* Protocol.on_voice_state_update(data): has_channel tells whether data
\* carries a channel_id, session_id is data.get('session_id')
S_voice_state_update(has_channel, session_id) ==
    /\ sess.protocol
    /\ IF ~has_channel
       THEN /\ sess' = VoiceLeft(sess)
            /\ slast' = [SL("voice_state_update", <<has_channel, session_id>>, 0, "none", <<>>)
                            EXCEPT !.pre = sess]
       ELSE LET s1 == [sess EXCEPT !.session_id = session_id]
                o == DispatchVoiceUpdate(s1)
            IN  /\ sess' = s1
                /\ slast' = [SL("voice_state_update", <<has_channel, session_id>>, 0,
                                 o.raised, o.frames)
                                EXCEPT !.pre = sess]
    /\ upd' = None
    /\ UNCHANGED <<nobj, link, stats, tasks, now, lastmsg>>
    /\ UNCHANGED <<qvars, pvars, nvars, fvars, hvars, ovars>>

\* Protocol.on_voice_server_update(data)
S_voice_server_update(data) ==
    /\ sess.protocol
    /\ LET s1 == [sess EXCEPT !.vsu = data]
           o == DispatchVoiceUpdate(s1)
       IN  /\ sess' = s1
           /\ slast' = SL("voice_server_update", <<data>>, 0, o.raised, o.frames)
    /\ upd' = None
    /\ UNCHANGED <<nobj, link, stats, tasks, now, lastmsg>>
    /\ UNCHANGED <<qvars, pvars, nvars, fvars, hvars, ovars>>

\* Player.play(track): _position and _last_update are reset before the send
S_play ==
    /\ sess.id # 0
    /\ LET s1 == [sess EXCEPT !.position = 0, !.last_update = 0]
           o == SSend("PLAY_TRACK", <<"track", "T">>)
       IN  /\ sess' = IF o.raised = "none" THEN [s1 EXCEPT !.current = Some("T")] ELSE s1
           /\ slast' = SL("play", <<>>, 0, o.raised, o.frames)
    /\ upd' = None
    /\ UNCHANGED <<nobj, link, stats, tasks, now, lastmsg>>
    /\ UNCHANGED <<qvars, pvars, nvars, fvars, hvars, ovars>>

\* Player.stop(force)
S_stop(force) ==
    /\ sess.id # 0
    /\ IF sess.current = None /\ ~force
       THEN /\ slast' = SL("stop", <<force>>, 0, "none", <<>>)
            /\ UNCHANGED sess
       ELSE LET o == SSend("STOP_TRACK", <<"guild">>)
            IN  /\ sess' = IF o.raised = "none" THEN [sess EXCEPT !.current = None] ELSE sess
                /\ slast' = SL("stop", <<force>>, 0, o.raised, o.frames)
    /\ upd' = None
    /\ UNCHANGED <<nobj, link, stats, tasks, now, lastmsg>>
    /\ UNCHANGED <<qvars, pvars, nvars, fvars, hvars, ovars>>

\* Player.set_pause(pause): pause is None, Some(TRUE) or Some(FALSE)
S_set_pause(pause) ==
    /\ sess.id # 0
    /\ LET new == IF pause = None THEN ~sess.paused ELSE Val(pause)
           o == SSend("PLAYER_PAUSE", <<"state", new>>)
       IN  /\ sess' = IF o.raised = "none" THEN [sess EXCEPT !.paused = new] ELSE sess
           /\ lastmsg' = IF o.raised = "none" THEN None ELSE lastmsg
           /\ slast' = SL("set_pause", <<pause>>, 0, o.raised, o.frames)
    /\ upd' = None
    /\ UNCHANGED <<nobj, link, stats, tasks, now>>
    /\ UNCHANGED <<qvars, pvars, nvars, fvars, hvars, ovars>>

\* the condition under which set_position returns at once:
\* not self._current or 0 > position > self._current.length
SeekIgnored(s, position) ==
    s.current = None \/ (0 > position /\ position > Length)

\* Player.set_position(position)
S_set_position(position) ==
    /\ sess.id # 0
    /\ IF SeekIgnored(sess, position)
       THEN /\ slast' = [SL("set_position", <<position>>, 0, "none", <<>>) EXCEPT !.pre = sess]
            /\ UNCHANGED sess
       ELSE LET o == SSend("PLAYER_SEEK", <<"position", position>>)
            IN  /\ sess' = IF o.raised = "none"
                           THEN [sess EXCEPT !.position = position, !.last_update = now]
                           ELSE sess
                /\ slast' = [SL("set_position", <<position>>, 0, o.raised, o.frames)
                                EXCEPT !.pre = sess]
    /\ upd' = None
    /\ UNCHANGED <<nobj, link, stats, tasks, now, lastmsg>>
    /\ UNCHANGED <<qvars, pvars, nvars, fvars, hvars, ovars>>

\* Websocket.listen receives message m and creates the task that runs
\* node.handle_ws_response(op, d)
S_receive(m) ==
    /\ Len(tasks) < MaxTasks
    /\ tasks' = Append(tasks, m)
    /\ lastmsg' = IF m.op = "PLAYER_UPDATE" /\ sess.id # 0
                  THEN Some([track |-> m.track, paused |-> m.paused])
                  ELSE lastmsg
    /\ slast' = SL("receive", <<>>, 0, "none", <<>>)
    /\ UNCHANGED <<sess, nobj, link, stats, now, upd>>
    /\ UNCHANGED <<qvars, pvars, nvars, fvars, hvars, ovars>>

\* A message received while no handler task is waiting to run.
S_receive_one(m) ==
    /\ tasks = <<>>
    /\ S_receive(m)

\* The event loop runs the oldest task: Node.handle_ws_response(op, data).
\* It has no await in it, so it runs to its end in one step.  STATS is
\* assigned to Node's own __stats; for PLAYER_UPDATE the player is
\* get_player(guild, must_exist=True), with cls left at Player.
S_run_handler ==
    /\ tasks # <<>>
    /\ LET m == Head(tasks)
           applied == m.op = "PLAYER_UPDATE" /\ sess.id # 0 /\ sess.cls = "Player"
       IN  /\ stats' = IF m.op = "STATS" THEN [stats EXCEPT !.node = Some(m.d)] ELSE stats
           /\ sess' = IF applied THEN UpdateState(sess, m, now) ELSE sess
           /\ upd' = IF applied /\ ~m.paused
                     THEN Some([position |-> m.position, at |-> now])
                     ELSE IF m.op = "PLAYER_UPDATE" THEN None ELSE upd
           /\ slast' = SL("handle_ws_response", <<m.op, m.d>>, 0, "none", <<>>)
    /\ tasks' = Tail(tasks)
    /\ UNCHANGED <<nobj, link, now, lastmsg>>
    /\ UNCHANGED <<qvars, pvars, nvars, fvars, hvars, ovars>>

\* The clock advances by a millisecond.
S_tick ==
    /\ now < Epoch + MaxTicks
    /\ now' = now + 1
    /\ slast' = SL("tick", <<>>, 0, "none", <<>>)
    /\ UNCHANGED <<sess, nobj, link, stats, tasks, upd, lastmsg>>
    /\ UNCHANGED <<qvars, pvars, nvars, fvars, hvars, ovars>>

\* The node's connection is made or lost.
S_link ==
    /\ link' = ~link
    /\ slast' = SL("link", <<>>, 0, "none", <<>>)
    /\ UNCHANGED <<sess, nobj, stats, tasks, now, upd, lastmsg>>
    /\ UNCHANGED <<qvars, pvars, nvars, fvars, hvars, ovars>>

StatsMsgs == {[NoMsg EXCEPT !.op = "STATS", !.d = d] : d \in StatsPayloads}
\* PLAYER_UPDATE messages naming tracks T or U, and those reporting a position
\* of track T
UpdateMsgs ==
    {[NoMsg EXCEPT !.op = "PLAYER_UPDATE", !.track = "T", !.paused = FALSE],
     [NoMsg EXCEPT !.op = "PLAYER_UPDATE", !.track = "U", !.paused = TRUE]}
PositionMsgs ==
    {[NoMsg EXCEPT !.op = "PLAYER_UPDATE", !.track = "T", !.position = TrackLen - 1,
                   !.paused = b] : b \in BOOLEAN}
SeekPositions == (-1)..(TrackLen + 1)

\* A node with no session for the guild, not connected, no message received.
InitSession ==
    /\ queue = <<>>
    /\ current = None
    /\ loop_type = "NONE"
    /\ qlast = [op |-> "init", arg |-> None, pre |-> None, preq |-> <<>>,
                adv |-> None, ret |-> NoTrack, raised |-> "none",
                hist |-> <<0, FALSE>>, phist |-> <<0, FALSE>>]
    /\ gets = Some(0)
    /\ held = NoTrack
    /\ heldLoose = NoTrack
    /\ pq = <<>>
    /\ pq_max = None
    /\ plast = [op |-> "init", kind |-> "none", n |-> 0, pre |-> <<>>, raised |-> "none"]
    /\ pool_nodes = [i \in Idents |-> 0]
    /\ node = [n \in NodeIds |-> NoNode]
    /\ wsock = [w \in WsIds |-> NoWs]
    /\ players = [n \in NodeIds |-> <<>>]
    /\ nlast = NLastInit
    /\ sess = NoSess
    /\ nobj = 0
    /\ link = FALSE
    /\ stats = [base |-> None, node |-> None]
    /\ tasks = <<>>
    /\ now = Epoch
    /\ upd = None
    /\ lastmsg = None
    /\ slast = SLastInit
    /\ fsink = <<>>
    /\ fghost = [k \in FilterKinds |-> 0]
    /\ fnormal = TRUE
    /\ flast = FLastInit
    /\ fupd = NoUpd
    /\ hreq = NoReq
    /\ hlast = HLastInit
    /\ rws = NoRws
    /\ renv = REnvInit
    /\ rlast = RLastInit
    /\ elisteners = [n \in ListenerNames |-> 0]
    /\ esched = <<>>
    /\ elast = ELastInit
    /\ ftasks = [t \in FilterTasks |-> NoFilterTask]
    /\ fwire = None
    /\ dsess = NoPlayer
    /\ dlast = DLastInit
    /\ ipool = [nodes |-> [i \in Idents |-> 0], built |-> 0, replaced |-> {}]
    /\ itasks = [t \in InitiateTasks |-> NoInitiate]
    /\ preset = NoPreset
    /\ prlast = PrLastInit

NextSession ==
    \/ \E cls \in PlayerClasses, must_exist \in BOOLEAN : S_get_player(cls, must_exist)
    \/ S_connect
    \/ \E has_channel \in BOOLEAN, session_id \in SessionIdArgs :
           S_voice_state_update(has_channel, session_id)
    \/ \E data \in ServerUpdates : S_voice_server_update(data)
    \/ S_play
    \/ \E force \in BOOLEAN : S_stop(force)
    \/ S_link

SpecSession == InitSession /\ [][NextSession]_vars

\* The same node, seen for what Player.position reports as time passes.
InitPlayback ==
    /\ queue = <<>>
    /\ current = None
    /\ loop_type = "NONE"
    /\ qlast = [op |-> "init", arg |-> None, pre |-> None, preq |-> <<>>,
                adv |-> None, ret |-> NoTrack, raised |-> "none",
                hist |-> <<0, FALSE>>, phist |-> <<0, FALSE>>]
    /\ gets = Some(0)
    /\ held = NoTrack
    /\ heldLoose = NoTrack
    /\ pq = <<>>
    /\ pq_max = None
    /\ plast = [op |-> "init", kind |-> "none", n |-> 0, pre |-> <<>>, raised |-> "none"]
    /\ pool_nodes = [i \in Idents |-> 0]
    /\ node = [n \in NodeIds |-> NoNode]
    /\ wsock = [w \in WsIds |-> NoWs]
    /\ players = [n \in NodeIds |-> <<>>]
    /\ nlast = NLastInit
    /\ sess = NoSess
    /\ nobj = 0
    /\ link = FALSE
    /\ stats = [base |-> None, node |-> None]
    /\ tasks = <<>>
    /\ now = Epoch
    /\ upd = None
    /\ lastmsg = None
    /\ slast = SLastInit
    /\ fsink = <<>>
    /\ fghost = [k \in FilterKinds |-> 0]
    /\ fnormal = TRUE
    /\ flast = FLastInit
    /\ fupd = NoUpd
    /\ hreq = NoReq
    /\ hlast = HLastInit
    /\ rws = NoRws
    /\ renv = REnvInit
    /\ rlast = RLastInit
    /\ elisteners = [n \in ListenerNames |-> 0]
    /\ esched = <<>>
    /\ elast = ELastInit
    /\ ftasks = [t \in FilterTasks |-> NoFilterTask]
    /\ fwire = None
    /\ dsess = NoPlayer
    /\ dlast = DLastInit
    /\ ipool = [nodes |-> [i \in Idents |-> 0], built |-> 0, replaced |-> {}]
    /\ itasks = [t \in InitiateTasks |-> NoInitiate]
    /\ preset = NoPreset
    /\ prlast = PrLastInit

NextPlayback ==
    \/ S_create_player("Player")
    \/ S_connect
    \/ S_play
    \/ \E pause \in {Some(TRUE), Some(FALSE)} : S_set_pause(pause)
    \/ \E position \in SeekPositions : S_set_position(position)
    \/ \E m \in PositionMsgs : S_receive_one(m)
    \/ S_run_handler
    \/ S_tick
    \/ S_link

SpecPlayback == InitPlayback /\ [][NextPlayback]_vars

\* The same node, seen for the messages it receives.
InitInbound ==
    /\ queue = <<>>
    /\ current = None
    /\ loop_type = "NONE"
    /\ qlast = [op |-> "init", arg |-> None, pre |-> None, preq |-> <<>>,
                adv |-> None, ret |-> NoTrack, raised |-> "none",
                hist |-> <<0, FALSE>>, phist |-> <<0, FALSE>>]
    /\ gets = Some(0)
    /\ held = NoTrack
    /\ heldLoose = NoTrack
    /\ pq = <<>>
    /\ pq_max = None
    /\ plast = [op |-> "init", kind |-> "none", n |-> 0, pre |-> <<>>, raised |-> "none"]
    /\ pool_nodes = [i \in Idents |-> 0]
    /\ node = [n \in NodeIds |-> NoNode]
    /\ wsock = [w \in WsIds |-> NoWs]
    /\ players = [n \in NodeIds |-> <<>>]
    /\ nlast = NLastInit
    /\ sess = NoSess
    /\ nobj = 0
    /\ link = FALSE
    /\ stats = [base |-> None, node |-> None]
    /\ tasks = <<>>
    /\ now = Epoch
    /\ upd = None
    /\ lastmsg = None
    /\ slast = SLastInit
    /\ fsink = <<>>
    /\ fghost = [k \in FilterKinds |-> 0]
    /\ fnormal = TRUE
    /\ flast = FLastInit
    /\ fupd = NoUpd
    /\ hreq = NoReq
    /\ hlast = HLastInit
    /\ rws = NoRws
    /\ renv = REnvInit
    /\ rlast = RLastInit
    /\ elisteners = [n \in ListenerNames |-> 0]
    /\ esched = <<>>
    /\ elast = ELastInit
    /\ ftasks = [t \in FilterTasks |-> NoFilterTask]
    /\ fwire = None
    /\ dsess = NoPlayer
    /\ dlast = DLastInit
    /\ ipool = [nodes |-> [i \in Idents |-> 0], built |-> 0, replaced |-> {}]
    /\ itasks = [t \in InitiateTasks |-> NoInitiate]
    /\ preset = NoPreset
    /\ prlast = PrLastInit

NextInbound ==
    \/ \E cls \in PlayerClasses : S_create_player(cls)
    \/ \E pause \in {None, Some(TRUE), Some(FALSE)} : S_set_pause(pause)
    \/ \E m \in StatsMsgs \cup UpdateMsgs : S_receive(m)
    \/ S_run_handler
    \/ S_link

SpecInbound == InitInbound /\ [][NextInbound]_vars

NextPBQ ==
    \/ PBQ_get
    \/ PBQ_skip
    \/ \E t \in Tracks, left \in BOOLEAN : PBQ_add(t, left)
    \/ PBQ_reset
    \/ PBQ_clear
    \/ \E new \in LoopTypes : PBQ_set_loop_type(new)
    \/ \E x \in RemoveArgs : PBQ_remove(x)
    \/ \E i \in Indices, t \in Tracks : PBQ_insert(i, t)
    \/ \E i \in Indices : PBQ_jump(i)

SpecPBQ == InitPBQ /\ [][NextPBQ]_vars

\* ------------------------------------------------------------ FilterSink
\* A dict is the sequence of its items in insertion order.
HasKey(d, k) == \E i \in DOMAIN d : d[i].key = k
\* d[k] of a key the dict has
GetItem(d, k) == d[CHOOSE i \in DOMAIN d : d[i].key = k].value
\* d[k] = v: a key the dict has keeps its place, a new key goes last
SetItem(d, k, v) ==
    IF HasKey(d, k)
    THEN [i \in DOMAIN d |-> IF d[i].key = k THEN [key |-> k, value |-> v] ELSE d[i]]
    ELSE Append(d, [key |-> k, value |-> v])
\* del d[k]
DelItem(d, k) == SelectSeq(d, LAMBDA e : e.key # k)

\* BaseFilter.identifier and to_raw of the filter classes
FilterIdentifier(f) == f.kind
ToRaw(f) == f.raw

\* FilterSink.to_json in insertion order of the dict instead of _FILTERS order
ToJson_InsertionOrder(d) == [i \in DOMAIN d |-> <<d[i].key, ToRaw(d[i].value)>>]

\* FilterSink.to_json: the 'filters' payload, a dict filled while walking
\* _FILTERS, as its items in insertion order
ToJson(d) ==
    LET present == SelectSeq(FILTERS, LAMBDA k : HasKey(d, k))
    IN  [i \in DOMAIN present |-> <<present[i], ToRaw(GetItem(d, present[i]))>>]

\* what remove() is called with: a kind name, a filter class (named by its
\* kind, raw 0), or a filter object
FilterRemoveArgs ==
    [by : {"str", "type"}, kind : FilterKinds, raw : {0}]
        \cup [by : {"filter"}, kind : FilterKinds, raw : 1..MaxRaw]

\* the items the class or instance loop of remove() matches
Matches(d, identifier) ==
    {i \in DOMAIN d :
        IF identifier.by = "type"
        THEN d[i].value.kind = identifier.kind
        ELSE d[i].value = [kind |-> identifier.kind, raw |-> identifier.raw]}

FL(op, ret, raised) == [op |-> op, ret |-> ret, raised |-> raised]

\* FilterSink.add (every argument is a BaseFilter)
FilterSink_add(f) ==
    /\ fsink' = SetItem(fsink, FilterIdentifier(f), f)
    /\ fghost' = [fghost EXCEPT ![FilterIdentifier(f)] = ToRaw(f)]
    /\ flast' = FL("add", <<>>, "none")
    /\ UNCHANGED fnormal
    /\ UNCHANGED fupd
    /\ UNCHANGED <<qvars, pvars, nvars, svars, hvars, ovars>>

\* FilterSink.remove: by name the key is deleted and a missing key ignored; by
\* class or instance the loop deletes the first matching item while iterating
\* the dict, and the next step of the iteration raises RuntimeError
FilterSink_remove(identifier) ==
    /\ IF identifier.by = "str"
       THEN /\ fsink' = DelItem(fsink, identifier.kind)
            /\ fghost' = [fghost EXCEPT ![identifier.kind] = 0]
            /\ flast' = FL("remove", <<>>, "none")
            /\ UNCHANGED fnormal
       ELSE IF Matches(fsink, identifier) = {}
       THEN /\ flast' = FL("remove", <<>>, "none")
            /\ UNCHANGED <<fsink, fghost, fnormal>>
       ELSE LET i == CHOOSE j \in Matches(fsink, identifier) :
                        \A k \in Matches(fsink, identifier) : j <= k
            IN  /\ fsink' = DelItem(fsink, fsink[i].key)
                /\ fnormal' = FALSE
                /\ flast' = FL("remove", <<>>, "RuntimeError")
                /\ UNCHANGED fghost
    /\ UNCHANGED fupd
    /\ UNCHANGED <<qvars, pvars, nvars, svars, hvars, ovars>>

\* FilterSink.reset
FilterSink_reset ==
    /\ fsink' = <<>>
    /\ fghost' = [k \in FilterKinds |-> 0]
    /\ flast' = FL("reset", <<>>, "none")
    /\ UNCHANGED fnormal
    /\ UNCHANGED fupd
    /\ UNCHANGED <<qvars, pvars, nvars, svars, hvars, ovars>>

\* FilterSink.to_json
FilterSink_to_json ==
    /\ flast' = FL("to_json", ToJson(fsink), "none")
    /\ UNCHANGED <<fsink, fghost, fnormal>>
    /\ UNCHANGED fupd
    /\ UNCHANGED <<qvars, pvars, nvars, svars, hvars, ovars>>

InitFilters ==
    /\ queue = <<>>
    /\ current = None
    /\ loop_type = "NONE"
    /\ qlast = [op |-> "init", arg |-> None, pre |-> None, preq |-> <<>>,
                adv |-> None, ret |-> NoTrack, raised |-> "none",
                hist |-> <<0, FALSE>>, phist |-> <<0, FALSE>>]
    /\ gets = Some(0)
    /\ held = NoTrack
    /\ heldLoose = NoTrack
    /\ pq = <<>>
    /\ pq_max = None
    /\ plast = [op |-> "init", kind |-> "none", n |-> 0, pre |-> <<>>, raised |-> "none"]
    /\ pool_nodes = [i \in Idents |-> 0]
    /\ node = [n \in NodeIds |-> NoNode]
    /\ wsock = [w \in WsIds |-> NoWs]
    /\ players = [n \in NodeIds |-> <<>>]
    /\ nlast = NLastInit
    /\ sess = NoSess
    /\ nobj = 0
    /\ link = FALSE
    /\ stats = [base |-> None, node |-> None]
    /\ tasks = <<>>
    /\ now = Epoch
    /\ upd = None
    /\ lastmsg = None
    /\ slast = SLastInit
    /\ fsink = <<>>
    /\ fghost = [k \in FilterKinds |-> 0]
    /\ fnormal = TRUE
    /\ flast = FLastInit
    /\ fupd = NoUpd
    /\ hreq = NoReq
    /\ hlast = HLastInit
    /\ rws = NoRws
    /\ renv = REnvInit
    /\ rlast = RLastInit
    /\ elisteners = [n \in ListenerNames |-> 0]
    /\ esched = <<>>
    /\ elast = ELastInit
    /\ ftasks = [t \in FilterTasks |-> NoFilterTask]
    /\ fwire = None
    /\ dsess = NoPlayer
    /\ dlast = DLastInit
    /\ ipool = [nodes |-> [i \in Idents |-> 0], built |-> 0, replaced |-> {}]
    /\ itasks = [t \in InitiateTasks |-> NoInitiate]
    /\ preset = NoPreset
    /\ prlast = PrLastInit

NextFilters ==
    \/ \E f \in FilterObjs : FilterSink_add(f)
    \/ \E identifier \in FilterRemoveArgs : FilterSink_remove(identifier)
    \/ FilterSink_reset
    \/ FilterSink_to_json

SpecFilters == InitFilters /\ [][NextFilters]_vars

\* ------------------------------------------- filter operations of a Player
\* str(n) of a natural number
Digits == <<"0", "1", "2", "3", "4", "5", "6", "7", "8", "9">>
RECURSIVE Str(_)
Str(n) == IF n < 10 THEN Digits[n + 1] ELSE Str(n \div 10) \o Digits[(n % 10) + 1]

\* Player._guild of the session the operations are called on
Guild == [id |-> 42]
\* Player.guild_id
GuildId == Guild.id

\* VolumeFilter.volume setter: the largest value it accepts
MaxVolumeRaw == 5
\* the percentages set_volume is called with: those of the raw values
\* 1..MaxRaw, and one above 500
Volumes == {100 * r : r \in 1..MaxRaw} \cup {100 * (MaxVolumeRaw + 1)}
\* the filters add_filter and the identifiers remove_filter are called with:
\* up to MaxArgs of them in one call
MaxArgs == 2
FilterSeqs == SeqsUpTo(FilterObjs, MaxArgs)
RemoveSeqs == SeqsUpTo(FilterRemoveArgs, MaxArgs) \ {<<>>}

\* A sink with its bookkeeping while one operation works on it.
SinkState == [sink |-> fsink, ghost |-> fghost, normal |-> fnormal, raised |-> "none"]

\* FilterSink.add on a sink state
SinkAdd(st, f) ==
    [st EXCEPT !.sink = SetItem(@, FilterIdentifier(f), f),
               !.ghost = [@ EXCEPT ![FilterIdentifier(f)] = ToRaw(f)]]

\* FilterSink.remove on a sink state
SinkRemove(st, identifier) ==
    IF identifier.by = "str"
    THEN [st EXCEPT !.sink = DelItem(@, identifier.kind),
                    !.ghost = [@ EXCEPT ![identifier.kind] = 0]]
    ELSE IF Matches(st.sink, identifier) = {}
    THEN st
    ELSE LET i == CHOOSE j \in Matches(st.sink, identifier) :
                     \A k \in Matches(st.sink, identifier) : j <= k
         IN  [st EXCEPT !.sink = DelItem(@, st.sink[i].key),
                        !.normal = FALSE, !.raised = "RuntimeError"]

\* for filter_ in filters: self.__sink.add(filter_)
RECURSIVE AddAll(_, _)
AddAll(st, fs) ==
    IF fs = <<>> THEN st ELSE AddAll(SinkAdd(st, Head(fs)), Tail(fs))

\* for filter_ in filters: self.__sink.remove(filter_), left at the first
\* call that raises
RECURSIVE RemoveAll(_, _)
RemoveAll(st, ids) ==
    IF ids = <<>> \/ st.raised # "none" THEN st
    ELSE RemoveAll(SinkRemove(st, Head(ids)), Tail(ids))

\* the sinks set_filters is called with: built by add() calls on a new sink
NewSink == [sink |-> <<>>, ghost |-> [k \in FilterKinds |-> 0], normal |-> TRUE,
            raised |-> "none"]
SinkArgs == {AddAll(NewSink, fs) : fs \in FilterSeqs}

\* Player.update_filters sending only the guild id and the kinds, without
\* the raw values of the filters
UpdateFilters_KindsOnly(sink) ==
    SSend("PLAYER_FILTERS",
          [guild_id |-> Str(GuildId),
           filters |-> [i \in DOMAIN ToJson(sink) |-> <<ToJson(sink)[i][1], 0>>]])

\* Player.update_filters: node.send(PLAYER_FILTERS, sink.to_json(guild_id));
\* to_json gives {'guild_id': str(guild_id), 'filters': payload}
UpdateFilters(sink) ==
    SSend("PLAYER_FILTERS", [guild_id |-> Str(GuildId), filters |-> ToJson(sink)])

\* A filter operation: the calls on the sink left it as st; update_filters
\* follows unless one of them raised.
FilterOp(op, st) ==
    LET o == IF st.raised = "none" THEN UpdateFilters(st.sink)
             ELSE [raised |-> st.raised, frames |-> <<>>]
    IN  /\ fsink' = st.sink
        /\ fghost' = st.ghost
        /\ fnormal' = st.normal
        /\ flast' = FL(op, <<>>, o.raised)
        /\ fupd' = [conn |-> link, frames |-> o.frames]

\* Player.set_volume(volume): the percent setter of a volume filter the sink
\* holds and the VolumeFilter constructor both raise ValueError above 5.0
Player_set_volume(volume) ==
    /\ IF volume \div 100 > MaxVolumeRaw
       THEN FilterOp("set_volume", [SinkState EXCEPT !.raised = "ValueError"])
       ELSE FilterOp("set_volume",
                     SinkAdd(SinkState, [kind |-> "volume", raw |-> volume \div 100]))
    /\ UNCHANGED <<qvars, pvars, nvars, svars, hvars, ovars>>

\* Player.set_equalizer(equalizer)
Player_set_equalizer(equalizer) ==
    /\ FilterOp("set_equalizer", SinkAdd(SinkState, equalizer))
    /\ UNCHANGED <<qvars, pvars, nvars, svars, hvars, ovars>>

\* Player.set_filters(filters): the sink is replaced by the one given
Player_set_filters(filters) ==
    /\ FilterOp("set_filters", filters)
    /\ UNCHANGED <<qvars, pvars, nvars, svars, hvars, ovars>>

\* Player.add_filter(*filters)
Player_add_filter(filters) ==
    /\ FilterOp("add_filter", AddAll(SinkState, filters))
    /\ UNCHANGED <<qvars, pvars, nvars, svars, hvars, ovars>>

\* Player.remove_filter(*filters)
Player_remove_filter(filters) ==
    /\ FilterOp("remove_filter", RemoveAll(SinkState, filters))
    /\ UNCHANGED <<qvars, pvars, nvars, svars, hvars, ovars>>

\* Player.reset_filters()
Player_reset_filters ==
    /\ FilterOp("reset_filters",
                [SinkState EXCEPT !.sink = <<>>, !.ghost = [k \in FilterKinds |-> 0]])
    /\ UNCHANGED <<qvars, pvars, nvars, svars, hvars, ovars>>

\* A Player just constructed, with an empty sink, on a node not connected.
InitPlayerFilters ==
    /\ queue = <<>>
    /\ current = None
    /\ loop_type = "NONE"
    /\ qlast = [op |-> "init", arg |-> None, pre |-> None, preq |-> <<>>,
                adv |-> None, ret |-> NoTrack, raised |-> "none",
                hist |-> <<0, FALSE>>, phist |-> <<0, FALSE>>]
    /\ gets = Some(0)
    /\ held = NoTrack
    /\ heldLoose = NoTrack
    /\ pq = <<>>
    /\ pq_max = None
    /\ plast = [op |-> "init", kind |-> "none", n |-> 0, pre |-> <<>>, raised |-> "none"]
    /\ pool_nodes = [i \in Idents |-> 0]
    /\ node = [n \in NodeIds |-> NoNode]
    /\ wsock = [w \in WsIds |-> NoWs]
    /\ players = [n \in NodeIds |-> <<>>]
    /\ nlast = NLastInit
    /\ sess = NoSess
    /\ nobj = 0
    /\ link = FALSE
    /\ stats = [base |-> None, node |-> None]
    /\ tasks = <<>>
    /\ now = Epoch
    /\ upd = None
    /\ lastmsg = None
    /\ slast = SLastInit
    /\ fsink = <<>>
    /\ fghost = [k \in FilterKinds |-> 0]
    /\ fnormal = TRUE
    /\ flast = FLastInit
    /\ fupd = NoUpd
    /\ hreq = NoReq
    /\ hlast = HLastInit
    /\ rws = NoRws
    /\ renv = REnvInit
    /\ rlast = RLastInit
    /\ elisteners = [n \in ListenerNames |-> 0]
    /\ esched = <<>>
    /\ elast = ELastInit
    /\ ftasks = [t \in FilterTasks |-> NoFilterTask]
    /\ fwire = None
    /\ dsess = NoPlayer
    /\ dlast = DLastInit
    /\ ipool = [nodes |-> [i \in Idents |-> 0], built |-> 0, replaced |-> {}]
    /\ itasks = [t \in InitiateTasks |-> NoInitiate]
    /\ preset = NoPreset
    /\ prlast = PrLastInit

NextPlayerFilters ==
    \/ \E volume \in Volumes : Player_set_volume(volume)
    \/ \E raw \in 1..MaxRaw : Player_set_equalizer([kind |-> "equalizer", raw |-> raw])
    \/ \E filters \in SinkArgs : Player_set_filters(filters)
    \/ \E filters \in FilterSeqs : Player_add_filter(filters)
    \/ \E filters \in RemoveSeqs : Player_remove_filter(filters)
    \/ Player_reset_filters
    \/ S_link

SpecPlayerFilters == InitPlayerFilters /\ [][NextPlayerFilters]_vars

\* ------------------------------ filter operations of a Player run as tasks
\* The edits the tasks make: add_filter(f), remove_filter(name or class) and
\* reset_filters().
TaskKinds == {"equalizer", "volume"}
TaskEdits ==
    [op : {"add_filter"}, by : {"-"}, kind : TaskKinds, raw : 1..MaxRaw]
        \cup [op : {"remove_filter"}, by : {"str", "type"}, kind : TaskKinds, raw : {0}]
        \cup {[op |-> "reset_filters", by |-> "-", kind |-> "-", raw |-> 0]}

\* the calls an operation makes on the sink before update_filters()
ApplyEdit(st, e) ==
    IF e.op = "add_filter" THEN SinkAdd(st, [kind |-> e.kind, raw |-> e.raw])
    ELSE IF e.op = "remove_filter"
    THEN SinkRemove(st, [by |-> e.by, kind |-> e.kind, raw |-> e.raw])
    ELSE [st EXCEPT !.sink = <<>>, !.ghost = [k \in FilterKinds |-> 0]]

\* A task runs its operation up to the first suspension: nothing is awaited
\* between the calls on the sink, to_json() and the write of the frame in
\* send_str(), so this is one step; the task is then suspended in send_str()
\* unless the operation raised.
Task_call(t, e) ==
    /\ ftasks[t].pc = "idle"
    /\ FilterOp(e.op, ApplyEdit(SinkState, e))
    /\ fwire' = IF fupd'.frames # <<>> THEN Some(fupd'.frames[1].d.filters) ELSE fwire
    /\ ftasks' = [ftasks EXCEPT ![t] =
                     [pc |-> IF flast'.raised = "none" THEN "sending" ELSE "done",
                      edit |-> e, raised |-> flast'.raised,
                      over |-> \E u \in FilterTasks \ {t} : ftasks[u].pc = "sending"]]
    /\ UNCHANGED <<qvars, pvars, nvars, svars, hvars, rvars, evars>>
    /\ UNCHANGED cother

\* send_str() returns and the operation with it
Task_resume(t) ==
    /\ ftasks[t].pc = "sending"
    /\ ftasks' = [ftasks EXCEPT ![t].pc = "done"]
    /\ UNCHANGED fwire
    /\ UNCHANGED <<qvars, pvars, nvars, svars, fvars, hvars, rvars, evars>>
    /\ UNCHANGED cother

\* both operations are over; the tasks are free for two more
Task_finish ==
    /\ \A t \in FilterTasks : ftasks[t].pc = "done"
    /\ ftasks' = [t \in FilterTasks |-> NoFilterTask]
    /\ UNCHANGED fwire
    /\ UNCHANGED <<qvars, pvars, nvars, svars, fvars, hvars, rvars, evars>>
    /\ UNCHANGED cother

\* A Player just constructed, with an empty sink, on a node not connected,
\* and no operation called yet.
InitFilterTasks ==
    /\ queue = <<>>
    /\ current = None
    /\ loop_type = "NONE"
    /\ qlast = [op |-> "init", arg |-> None, pre |-> None, preq |-> <<>>,
                adv |-> None, ret |-> NoTrack, raised |-> "none",
                hist |-> <<0, FALSE>>, phist |-> <<0, FALSE>>]
    /\ gets = Some(0)
    /\ held = NoTrack
    /\ heldLoose = NoTrack
    /\ pq = <<>>
    /\ pq_max = None
    /\ plast = [op |-> "init", kind |-> "none", n |-> 0, pre |-> <<>>, raised |-> "none"]
    /\ pool_nodes = [i \in Idents |-> 0]
    /\ node = [n \in NodeIds |-> NoNode]
    /\ wsock = [w \in WsIds |-> NoWs]
    /\ players = [n \in NodeIds |-> <<>>]
    /\ nlast = NLastInit
    /\ sess = NoSess
    /\ nobj = 0
    /\ link = FALSE
    /\ stats = [base |-> None, node |-> None]
    /\ tasks = <<>>
    /\ now = Epoch
    /\ upd = None
    /\ lastmsg = None
    /\ slast = SLastInit
    /\ fsink = <<>>
    /\ fghost = [k \in FilterKinds |-> 0]
    /\ fnormal = TRUE
    /\ flast = FLastInit
    /\ fupd = NoUpd
    /\ hreq = NoReq
    /\ hlast = HLastInit
    /\ rws = NoRws
    /\ renv = REnvInit
    /\ rlast = RLastInit
    /\ elisteners = [n \in ListenerNames |-> 0]
    /\ esched = <<>>
    /\ elast = ELastInit
    /\ ftasks = [t \in FilterTasks |-> NoFilterTask]
    /\ fwire = None
    /\ dsess = NoPlayer
    /\ dlast = DLastInit
    /\ ipool = [nodes |-> [i \in Idents |-> 0], built |-> 0, replaced |-> {}]
    /\ itasks = [t \in InitiateTasks |-> NoInitiate]
    /\ preset = NoPreset
    /\ prlast = PrLastInit

NextFilterTasks ==
    \/ \E t \in FilterTasks, e \in TaskEdits : Task_call(t, e)
    \/ \E t \in FilterTasks : Task_resume(t)
    \/ Task_finish
    \/ S_link

SpecFilterTasks == InitFilterTasks /\ [][NextFilterTasks]_vars

\* ------------------------------------------- disconnecting and destroying
DL(op, force, raised, frames) ==
    [op |-> op, force |-> force, pre |-> dsess, conn |-> link, raised |-> raised,
     frames |-> frames]

\* Player.stop(force) as Protocol.disconnect calls it on a connected node
StopFrames(s, force) ==
    IF ~s.current /\ ~force THEN <<>>
    ELSE <<Frame(<<"enum", "STOP_TRACK">>, <<"guild">>)>>

\* del node._players[guild_id]: KeyError when the guild is not a key
DelPlayer(s) ==
    IF s.stored THEN [s |-> [s EXCEPT !.stored = FALSE], raised |-> "none"]
    ELSE [s |-> s, raised |-> "KeyError"]

\* Protocol.disconnect(force): the voice state is changed; on a connected
\* node the track is stopped and PLAYER_DESTROY is sent; the Player is deleted
\* from node._players
ProtocolDisconnect(s, force) ==
    IF ~s.channel /\ ~force THEN [s |-> s, raised |-> "none", frames |-> <<>>]
    ELSE LET frames == IF link
                       THEN StopFrames(s, force)
                                \o <<Frame(<<"enum", "PLAYER_DESTROY">>, <<"guild">>)>>
                       ELSE <<>>
             s1 == IF link /\ StopFrames(s, force) # <<>>
                   THEN [s EXCEPT !.current = FALSE] ELSE s
             d == DelPlayer(s1)
         IN  [s |-> d.s, raised |-> d.raised, frames |-> frames]

\* Player.disconnect(force)
PlayerDisconnect(s, force) ==
    IF ~s.protocol \/ ~s.channel
    THEN [s |-> s, raised |-> "ValueError", frames |-> <<>>]
    ELSE ProtocolDisconnect(s, force)

\* Player.destroy(force): disconnect, then del node._players[guild_id]
PlayerDestroy(s, force) ==
    LET o == PlayerDisconnect(s, force)
        d == DelPlayer(o.s)
    IN  IF o.raised # "none" THEN o
        ELSE [s |-> d.s, raised |-> d.raised, frames |-> o.frames]

\* node.get_player(guild): the Player is built and stored
D_get_player ==
    /\ ~dsess.exists
    /\ dsess' = [NoPlayer EXCEPT !.exists = TRUE, !.stored = TRUE]
    /\ dlast' = DL("get_player", FALSE, "none", <<>>)
    /\ UNCHANGED <<qvars, pvars, nvars, svars, fvars, hvars, rvars, evars>>
    /\ UNCHANGED dother

\* Player.connect(channel)
D_connect ==
    /\ dsess.exists
    /\ dsess' = [dsess EXCEPT !.channel = TRUE, !.protocol = TRUE]
    /\ dlast' = DL("connect", FALSE, "none", <<>>)
    /\ UNCHANGED <<qvars, pvars, nvars, svars, fvars, hvars, rvars, evars>>
    /\ UNCHANGED dother

\* Player.play(track)
D_play ==
    /\ dsess.exists
    /\ LET o == SSend("PLAY_TRACK", <<"guild">>)
       IN  /\ dsess' = IF o.raised = "none" THEN [dsess EXCEPT !.current = TRUE] ELSE dsess
           /\ dlast' = DL("play", FALSE, o.raised, o.frames)
    /\ UNCHANGED <<qvars, pvars, nvars, svars, fvars, hvars, rvars, evars>>
    /\ UNCHANGED dother

\* Protocol.on_voice_state_update without a channel_id
D_voice_left ==
    /\ dsess.protocol
    /\ dsess' = [dsess EXCEPT !.channel = FALSE]
    /\ dlast' = DL("voice_state_update", FALSE, "none", <<>>)
    /\ UNCHANGED <<qvars, pvars, nvars, svars, fvars, hvars, rvars, evars>>
    /\ UNCHANGED dother

\* Player.disconnect(force=force)
D_disconnect(force) ==
    /\ dsess.exists
    /\ LET o == PlayerDisconnect(dsess, force)
       IN  /\ dsess' = o.s
           /\ dlast' = DL("disconnect", force, o.raised, o.frames)
    /\ UNCHANGED <<qvars, pvars, nvars, svars, fvars, hvars, rvars, evars>>
    /\ UNCHANGED dother

\* Player.destroy(force=force)
D_destroy(force) ==
    /\ dsess.exists
    /\ LET o == PlayerDestroy(dsess, force)
       IN  /\ dsess' = o.s
           /\ dlast' = DL("destroy", force, o.raised, o.frames)
    /\ UNCHANGED <<qvars, pvars, nvars, svars, fvars, hvars, rvars, evars>>
    /\ UNCHANGED dother

\* No Player yet, on a node not connected.
InitDestroy ==
    /\ queue = <<>>
    /\ current = None
    /\ loop_type = "NONE"
    /\ qlast = [op |-> "init", arg |-> None, pre |-> None, preq |-> <<>>,
                adv |-> None, ret |-> NoTrack, raised |-> "none",
                hist |-> <<0, FALSE>>, phist |-> <<0, FALSE>>]
    /\ gets = Some(0)
    /\ held = NoTrack
    /\ heldLoose = NoTrack
    /\ pq = <<>>
    /\ pq_max = None
    /\ plast = [op |-> "init", kind |-> "none", n |-> 0, pre |-> <<>>, raised |-> "none"]
    /\ pool_nodes = [i \in Idents |-> 0]
    /\ node = [n \in NodeIds |-> NoNode]
    /\ wsock = [w \in WsIds |-> NoWs]
    /\ players = [n \in NodeIds |-> <<>>]
    /\ nlast = NLastInit
    /\ sess = NoSess
    /\ nobj = 0
    /\ link = FALSE
    /\ stats = [base |-> None, node |-> None]
    /\ tasks = <<>>
    /\ now = Epoch
    /\ upd = None
    /\ lastmsg = None
    /\ slast = SLastInit
    /\ fsink = <<>>
    /\ fghost = [k \in FilterKinds |-> 0]
    /\ fnormal = TRUE
    /\ flast = FLastInit
    /\ fupd = NoUpd
    /\ hreq = NoReq
    /\ hlast = HLastInit
    /\ rws = NoRws
    /\ renv = REnvInit
    /\ rlast = RLastInit
    /\ elisteners = [n \in ListenerNames |-> 0]
    /\ esched = <<>>
    /\ elast = ELastInit
    /\ ftasks = [t \in FilterTasks |-> NoFilterTask]
    /\ fwire = None
    /\ dsess = NoPlayer
    /\ dlast = DLastInit
    /\ ipool = [nodes |-> [i \in Idents |-> 0], built |-> 0, replaced |-> {}]
    /\ itasks = [t \in InitiateTasks |-> NoInitiate]
    /\ preset = NoPreset
    /\ prlast = PrLastInit

NextDestroy ==
    \/ D_get_player
    \/ D_connect
    \/ D_play
    \/ D_voice_left
    \/ \E force \in BOOLEAN : D_disconnect(force)
    \/ \E force \in BOOLEAN : D_destroy(force)
    \/ S_link

SpecDestroy == InitDestroy /\ [][NextDestroy]_vars

\* --------------------------------------------- concurrent initiate_node
\* initiate_node up to its first suspension: the identifier is looked up in
\* _nodes, the node is built and node.connect() is awaited
Initiate_call(t, id) ==
    /\ itasks[t].pc = "idle"
    /\ IF ipool.nodes[id] # 0
       THEN /\ itasks' = [itasks EXCEPT ![t] =
                             [pc |-> "done", id |-> id, obj |-> 0,
                              raised |-> "NodeAlreadyExists", over |-> FALSE]]
            /\ UNCHANGED ipool
       ELSE /\ ipool.built < MaxBuilt
            /\ ipool' = [ipool EXCEPT !.built = @ + 1]
            /\ itasks' = [itasks EXCEPT ![t] =
                             [pc |-> "connecting", id |-> id, obj |-> ipool.built + 1,
                              raised |-> "none",
                              over |-> \E u \in InitiateTasks \ {t} :
                                          itasks[u].pc = "connecting" /\ itasks[u].id = id]]
    /\ UNCHANGED <<qvars, pvars, nvars, svars, fvars, hvars, rvars, evars>>
    /\ UNCHANGED iother

\* node.connect() returns: self._nodes[node.identifier] = node
Initiate_connected(t) ==
    /\ itasks[t].pc = "connecting"
    /\ ipool' = [ipool EXCEPT !.nodes[itasks[t].id] = itasks[t].obj,
                              !.replaced = IF ipool.nodes[itasks[t].id] # 0
                                           THEN @ \cup {ipool.nodes[itasks[t].id]}
                                           ELSE @]
    /\ itasks' = [itasks EXCEPT ![t].pc = "done"]
    /\ UNCHANGED <<qvars, pvars, nvars, svars, fvars, hvars, rvars, evars>>
    /\ UNCHANGED iother

\* node.connect() raises: nothing is registered
Initiate_failed(t) ==
    /\ itasks[t].pc = "connecting"
    /\ itasks' = [itasks EXCEPT ![t].pc = "done", ![t].raised = "ConnectionFailure"]
    /\ UNCHANGED ipool
    /\ UNCHANGED <<qvars, pvars, nvars, svars, fvars, hvars, rvars, evars>>
    /\ UNCHANGED iother

\* both calls are over; the tasks are free for two more
Initiate_finish ==
    /\ \A t \in InitiateTasks : itasks[t].pc = "done"
    /\ itasks' = [t \in InitiateTasks |-> NoInitiate]
    /\ UNCHANGED ipool
    /\ UNCHANGED <<qvars, pvars, nvars, svars, fvars, hvars, rvars, evars>>
    /\ UNCHANGED iother

\* An empty pool and no call made.
InitInitiate ==
    /\ queue = <<>>
    /\ current = None
    /\ loop_type = "NONE"
    /\ qlast = [op |-> "init", arg |-> None, pre |-> None, preq |-> <<>>,
                adv |-> None, ret |-> NoTrack, raised |-> "none",
                hist |-> <<0, FALSE>>, phist |-> <<0, FALSE>>]
    /\ gets = Some(0)
    /\ held = NoTrack
    /\ heldLoose = NoTrack
    /\ pq = <<>>
    /\ pq_max = None
    /\ plast = [op |-> "init", kind |-> "none", n |-> 0, pre |-> <<>>, raised |-> "none"]
    /\ pool_nodes = [i \in Idents |-> 0]
    /\ node = [n \in NodeIds |-> NoNode]
    /\ wsock = [w \in WsIds |-> NoWs]
    /\ players = [n \in NodeIds |-> <<>>]
    /\ nlast = NLastInit
    /\ sess = NoSess
    /\ nobj = 0
    /\ link = FALSE
    /\ stats = [base |-> None, node |-> None]
    /\ tasks = <<>>
    /\ now = Epoch
    /\ upd = None
    /\ lastmsg = None
    /\ slast = SLastInit
    /\ fsink = <<>>
    /\ fghost = [k \in FilterKinds |-> 0]
    /\ fnormal = TRUE
    /\ flast = FLastInit
    /\ fupd = NoUpd
    /\ hreq = NoReq
    /\ hlast = HLastInit
    /\ rws = NoRws
    /\ renv = REnvInit
    /\ rlast = RLastInit
    /\ elisteners = [n \in ListenerNames |-> 0]
    /\ esched = <<>>
    /\ elast = ELastInit
    /\ ftasks = [t \in FilterTasks |-> NoFilterTask]
    /\ fwire = None
    /\ dsess = NoPlayer
    /\ dlast = DLastInit
    /\ ipool = [nodes |-> [i \in Idents |-> 0], built |-> 0, replaced |-> {}]
    /\ itasks = [t \in InitiateTasks |-> NoInitiate]
    /\ preset = NoPreset
    /\ prlast = PrLastInit

NextInitiate ==
    \/ \E t \in InitiateTasks, id \in Idents : Initiate_call(t, id)
    \/ \E t \in InitiateTasks : Initiate_connected(t)
    \/ \E t \in InitiateTasks : Initiate_failed(t)
    \/ Initiate_finish

SpecInitiate == InitInitiate /\ [][NextInitiate]_vars

\* ------------------------------------------------------------ PresetPlayer
PrL(op, track, raised, frames, created, cancelled) ==
    [op |-> op, track |-> track, raised |-> raised, frames |-> frames,
     created |-> created, cancelled |-> cancelled]

\* PresetPlayer.__play(track) on player p, where track is NoTrack when the
\* queue returned None: a destroy task is created for no track;
\* _kill_destroy_task() then cancels the task held, that one included; then
\* Player.play(track), which reads track.id
PresetPlay(p, track) ==
    LET created == track = NoTrack
        had == created \/ p.due # None
        o == IF track = NoTrack THEN [raised |-> "AttributeError", frames |-> <<>>]
             ELSE SSend("PLAY_TRACK", <<"guild", track>>)
    IN  [p |-> [p EXCEPT !.due = None], raised |-> o.raised, frames |-> o.frames,
         created |-> created, cancelled |-> had]

\* PresetPlayer(node, bot, guild, wait_timeout=given): the queue is a new
\* PointerBasedQueue and the timeout kept is 180 whatever is given
Preset_init(given) ==
    /\ ~preset.built
    /\ preset' = [NoPreset EXCEPT !.built = TRUE, !.given = given,
                                  !.wait_timeout = StoredWaitTimeout]
    /\ prlast' = PrL("init", NoTrack, "none", <<>>, FALSE, FALSE)
    /\ UNCHANGED <<qvars, pvars, nvars, svars, fvars, hvars, rvars, evars>>
    /\ UNCHANGED kother

\* PresetPlayer.enqueue(track): _kill_destroy_task(), then queue.add(track)
Preset_enqueue(track) ==
    /\ preset.built /\ ~preset.destroyed
    /\ Len(preset.q) < MaxLen
    /\ preset' = [preset EXCEPT !.due = None, !.q = Append(@, track)]
    /\ prlast' = PrL("enqueue", NoTrack, "none", <<>>, FALSE, preset.due # None)
    /\ UNCHANGED <<qvars, pvars, nvars, svars, fvars, hvars, rvars, evars>>
    /\ UNCHANGED kother

\* PresetPlayer.do_next(): __play(queue.get())
Preset_do_next ==
    /\ preset.built /\ ~preset.destroyed
    /\ WithinBound(preset.cur)
    /\ LET g == GetOutcome(preset.q, preset.cur, "NONE")
           o == PresetPlay([preset EXCEPT !.cur = g.cur], g.ret)
       IN  /\ preset' = o.p
           /\ prlast' = PrL("do_next", g.ret, o.raised, o.frames, o.created, o.cancelled)
    /\ UNCHANGED <<qvars, pvars, nvars, svars, fvars, hvars, rvars, evars>>
    /\ UNCHANGED kother

\* PresetPlayer.skip(): __play(queue.skip())
Preset_skip ==
    /\ preset.built /\ ~preset.destroyed
    /\ WithinBound(preset.cur)
    /\ LET g == SkipOutcome(preset.q, preset.cur, "NONE")
           o == PresetPlay([preset EXCEPT !.cur = g.cur], g.ret)
       IN  /\ preset' = o.p
           /\ prlast' = PrL("skip", g.ret, o.raised, o.frames, o.created, o.cancelled)
    /\ UNCHANGED <<qvars, pvars, nvars, svars, fvars, hvars, rvars, evars>>
    /\ UNCHANGED kother

\* A second passes; wait_then_destroy() of a pending destroy task that is
\* due destroys the player.
Preset_tick ==
    /\ preset.built
    /\ preset.clock < MaxTicks
    /\ LET t == preset.clock + 1
           due == IF preset.due = None THEN FALSE ELSE Val(preset.due) <= t
       IN  preset' = [preset EXCEPT !.clock = t,
                                    !.due = IF due THEN None ELSE @,
                                    !.destroyed = IF due THEN TRUE ELSE @]
    /\ prlast' = PrL("tick", NoTrack, "none", <<>>, FALSE, FALSE)
    /\ UNCHANGED <<qvars, pvars, nvars, svars, fvars, hvars, rvars, evars>>
    /\ UNCHANGED kother

\* No PresetPlayer constructed yet, on a node not connected.
InitPreset ==
    /\ queue = <<>>
    /\ current = None
    /\ loop_type = "NONE"
    /\ qlast = [op |-> "init", arg |-> None, pre |-> None, preq |-> <<>>,
                adv |-> None, ret |-> NoTrack, raised |-> "none",
                hist |-> <<0, FALSE>>, phist |-> <<0, FALSE>>]
    /\ gets = Some(0)
    /\ held = NoTrack
    /\ heldLoose = NoTrack
    /\ pq = <<>>
    /\ pq_max = None
    /\ plast = [op |-> "init", kind |-> "none", n |-> 0, pre |-> <<>>, raised |-> "none"]
    /\ pool_nodes = [i \in Idents |-> 0]
    /\ node = [n \in NodeIds |-> NoNode]
    /\ wsock = [w \in WsIds |-> NoWs]
    /\ players = [n \in NodeIds |-> <<>>]
    /\ nlast = NLastInit
    /\ sess = NoSess
    /\ nobj = 0
    /\ link = FALSE
    /\ stats = [base |-> None, node |-> None]
    /\ tasks = <<>>
    /\ now = Epoch
    /\ upd = None
    /\ lastmsg = None
    /\ slast = SLastInit
    /\ fsink = <<>>
    /\ fghost = [k \in FilterKinds |-> 0]
    /\ fnormal = TRUE
    /\ flast = FLastInit
    /\ fupd = NoUpd
    /\ hreq = NoReq
    /\ hlast = HLastInit
    /\ rws = NoRws
    /\ renv = REnvInit
    /\ rlast = RLastInit
    /\ elisteners = [n \in ListenerNames |-> 0]
    /\ esched = <<>>
    /\ elast = ELastInit
    /\ ftasks = [t \in FilterTasks |-> NoFilterTask]
    /\ fwire = None
    /\ dsess = NoPlayer
    /\ dlast = DLastInit
    /\ ipool = [nodes |-> [i \in Idents |-> 0], built |-> 0, replaced |-> {}]
    /\ itasks = [t \in InitiateTasks |-> NoInitiate]
    /\ preset = NoPreset
    /\ prlast = PrLastInit

NextPreset ==
    \/ \E given \in WaitTimeouts : Preset_init(given)
    \/ \E track \in Tracks : Preset_enqueue(track)
    \/ Preset_do_next
    \/ Preset_skip
    \/ Preset_tick
    \/ S_link

SpecPreset == InitPreset /\ [][NextPreset]_vars

\* ------------------------------------------------------------ HTTPClient
Methods == {"GET", "POST"}
Routes == {"/loadtracks", "/decodetrack", "/decodetracks"}
\* the headers argument of request(): None, or a dict as its set of items
HeaderArgs == {None, Some({<<"X-Trace", "1">>})}

\* request(): the dict _headers built from the password and the headers
\* argument (it is built and not used again)
BuiltHeaders(headers) ==
    IF headers = None
    THEN {<<"Authorization", Password>>}
    ELSE {h \in {<<"Authorization", Password>>} : \A g \in Val(headers) : g[1] # h[1]}
             \cup Val(headers)
\* request(): the 'headers' entry of the kwargs given to session.request
KwargsHeaders(headers) == headers
\* the headers a request of the node's own session carries: the session was
\* built without default headers, so those given to session.request, if any
Carried(headers) == IF headers = None THEN {} ELSE Val(headers)

\* 200 <= response.status < 300, with only 200 taken for success
Ok_Only200(status) == status = 200
\* 200 <= response.status < 300
Ok(status) == 200 <= status /\ status < 300
\* await response.json()
Json(r) == <<"json", r.body>>

HL(op, ret, raised, response) ==
    [op |-> op, ret |-> ret, raised |-> raised, response |-> response]

\* request() up to its first attempt: max_retries < 1 raises ValueError, else
\* the keyword arguments are built and the loop is entered
Request(via, method, route, headers, max_retries) ==
    /\ hreq.pc # "loop"
    /\ IF max_retries < 1
       THEN /\ hreq' = [NoReq EXCEPT !.pc = "done", !.via = via, !.method = method,
                                     !.route = route, !.max_retries = max_retries]
            /\ hlast' = HL("request", <<>>, "ValueError", NoResponse)
       ELSE /\ hreq' = [pc |-> "loop", via |-> via, method |-> method, route |-> route,
                        max_retries |-> max_retries,
                        headers |-> KwargsHeaders(headers), sent |-> <<>>, got |-> <<>>]
            /\ hlast' = HL("request", <<>>, "pending", NoResponse)

\* HTTPClient.request called directly
HTTP_request(method, route, headers, max_retries) ==
    /\ Request("request", method, route, headers, max_retries)
    /\ UNCHANGED <<qvars, pvars, nvars, svars, fvars, ovars>>

\* HTTPClient.load_tracks
HTTP_load_tracks ==
    /\ Request("load_tracks", "GET", "/loadtracks", None, DefaultRetries)
    /\ UNCHANGED <<qvars, pvars, nvars, svars, fvars, ovars>>

\* HTTPClient.decode_track
HTTP_decode_track ==
    /\ Request("decode_track", "GET", "/decodetrack", None, DefaultRetries)
    /\ UNCHANGED <<qvars, pvars, nvars, svars, fvars, ovars>>

\* HTTPClient.decode_tracks
HTTP_decode_tracks ==
    /\ Request("decode_tracks", "POST", "/decodetracks", None, DefaultRetries)
    /\ UNCHANGED <<qvars, pvars, nvars, svars, fvars, ovars>>

\* one pass of the loop of request(): the request is sent and answered by r;
\* a 2xx answer is returned parsed, another one is followed by the next pass,
\* or after the last pass by HTTPError with that response
HTTP_attempt(r) ==
    /\ hreq.pc = "loop"
    /\ LET sent == Append(hreq.sent, [method |-> hreq.method, route |-> hreq.route,
                                      headers |-> Carried(hreq.headers)])
           got == Append(hreq.got, r)
       IN  IF Ok(r.status)
           THEN /\ hreq' = [hreq EXCEPT !.pc = "done", !.sent = sent, !.got = got]
                /\ hlast' = HL("request", Json(r), "none", NoResponse)
           ELSE IF Len(got) = hreq.max_retries
           THEN /\ hreq' = [hreq EXCEPT !.pc = "done", !.sent = sent, !.got = got]
                /\ hlast' = HL("request", <<>>, "HTTPError", r)
           ELSE /\ hreq' = [hreq EXCEPT !.sent = sent, !.got = got]
                /\ UNCHANGED hlast
    /\ UNCHANGED <<qvars, pvars, nvars, svars, fvars, ovars>>

InitHttp ==
    /\ queue = <<>>
    /\ current = None
    /\ loop_type = "NONE"
    /\ qlast = [op |-> "init", arg |-> None, pre |-> None, preq |-> <<>>,
                adv |-> None, ret |-> NoTrack, raised |-> "none",
                hist |-> <<0, FALSE>>, phist |-> <<0, FALSE>>]
    /\ gets = Some(0)
    /\ held = NoTrack
    /\ heldLoose = NoTrack
    /\ pq = <<>>
    /\ pq_max = None
    /\ plast = [op |-> "init", kind |-> "none", n |-> 0, pre |-> <<>>, raised |-> "none"]
    /\ pool_nodes = [i \in Idents |-> 0]
    /\ node = [n \in NodeIds |-> NoNode]
    /\ wsock = [w \in WsIds |-> NoWs]
    /\ players = [n \in NodeIds |-> <<>>]
    /\ nlast = NLastInit
    /\ sess = NoSess
    /\ nobj = 0
    /\ link = FALSE
    /\ stats = [base |-> None, node |-> None]
    /\ tasks = <<>>
    /\ now = Epoch
    /\ upd = None
    /\ lastmsg = None
    /\ slast = SLastInit
    /\ fsink = <<>>
    /\ fghost = [k \in FilterKinds |-> 0]
    /\ fnormal = TRUE
    /\ flast = FLastInit
    /\ fupd = NoUpd
    /\ hreq = NoReq
    /\ hlast = HLastInit
    /\ rws = NoRws
    /\ renv = REnvInit
    /\ rlast = RLastInit
    /\ elisteners = [n \in ListenerNames |-> 0]
    /\ esched = <<>>
    /\ elast = ELastInit
    /\ ftasks = [t \in FilterTasks |-> NoFilterTask]
    /\ fwire = None
    /\ dsess = NoPlayer
    /\ dlast = DLastInit
    /\ ipool = [nodes |-> [i \in Idents |-> 0], built |-> 0, replaced |-> {}]
    /\ itasks = [t \in InitiateTasks |-> NoInitiate]
    /\ preset = NoPreset
    /\ prlast = PrLastInit

NextHttp ==
    \/ \E method \in Methods, route \in Routes, headers \in HeaderArgs,
          max_retries \in 0..MaxRetries :
           HTTP_request(method, route, headers, max_retries)
    \/ HTTP_load_tracks
    \/ HTTP_decode_track
    \/ HTTP_decode_tracks
    \/ \E r \in Responses : HTTP_attempt(r)

SpecHttp == InitHttp /\ [][NextHttp]_vars

\* ------------------------------------- Websocket.listen and reconnection
\* BaseNode.connected: the Websocket object is held and its socket is open
RConnected(w) == w.node /\ w.handle = "open"

\* a receive loop that never finds the Websocket disconnected
StillDown_Never(w) == FALSE
\* listen(): not self.connected, the socket is None or closed
StillDown(w) == w.handle # "open"

RL(op, ok, caller) == [op |-> op, ok |-> ok, caller |-> caller]

\* Node.connect called by the application on a node without a socket: a new
\* Websocket object is stored in BaseNode.__ws first; Websocket.connect then
\* opens the socket and creates the listen task, or raises to the caller
Reconnect_node_connect ==
    /\ rws.handle = "none"
    /\ rws.recv + rws.sleep + rws.conn = 0
    /\ IF renv.backend = "up"
       THEN /\ rws' = [rws EXCEPT !.node = TRUE, !.handle = "open", !.recv = 1]
            /\ rlast' = RL("connect", TRUE, "none")
       ELSE /\ rws' = [rws EXCEPT !.node = TRUE]
            /\ rlast' = RL("connect", FALSE, "ObsidianConnectionFailure")
    /\ UNCHANGED renv
    /\ UNCHANGED <<qvars, pvars, nvars, svars, fvars, hvars, evars, yvars>>

\* the connection of the socket in Websocket.__ws is lost
Peer_drop ==
    /\ rws.handle = "open"
    /\ renv.drops < MaxDrops
    /\ rws' = [rws EXCEPT !.handle = "closed"]
    /\ renv' = [renv EXCEPT !.drops = @ + 1]
    /\ rlast' = RL("drop", TRUE, "none")
    /\ UNCHANGED <<qvars, pvars, nvars, svars, fvars, hvars, evars, yvars>>

\* the connection of an open socket nothing refers to is lost
Peer_drop_leaked ==
    /\ rws.leak > 0
    /\ rws' = [rws EXCEPT !.leak = @ - 1]
    /\ rlast' = RL("drop", TRUE, "none")
    /\ UNCHANGED renv
    /\ UNCHANGED <<qvars, pvars, nvars, svars, fvars, hvars, evars, yvars>>

\* the backend stops and starts accepting connections
Backend_down ==
    /\ renv.backend = "up"
    /\ renv' = [renv EXCEPT !.backend = "down"]
    /\ rlast' = RL("backend", FALSE, "none")
    /\ UNCHANGED rws
    /\ UNCHANGED <<qvars, pvars, nvars, svars, fvars, hvars, evars, yvars>>

Backend_up ==
    /\ renv.backend = "down"
    /\ renv' = [renv EXCEPT !.backend = "up"]
    /\ rlast' = RL("backend", TRUE, "none")
    /\ UNCHANGED rws
    /\ UNCHANGED <<qvars, pvars, nvars, svars, fvars, hvars, evars, yvars>>

\* listen(): receive() on a closed socket returns CLOSED; the loop takes a
\* backoff delay and sleeps
Listen_closed ==
    /\ rws.recv > 0
    /\ rws.handle = "closed"
    /\ rws' = [rws EXCEPT !.recv = @ - 1, !.sleep = @ + 1]
    /\ rlast' = RL("closed_read", TRUE, "none")
    /\ UNCHANGED renv
    /\ UNCHANGED <<qvars, pvars, nvars, svars, fvars, hvars, evars, yvars>>

\* listen(): the sleep is over; when the Websocket is not connected a task
\* running Websocket.connect is created; the loop calls receive() again
Listen_retry ==
    /\ rws.sleep > 0
    /\ StillDown(rws) => rws.conn < MaxConn
    /\ rws' = [rws EXCEPT !.sleep = @ - 1, !.recv = @ + 1,
                          !.conn = IF StillDown(rws) THEN @ + 1 ELSE @]
    /\ rlast' = RL("retry", TRUE, "none")
    /\ UNCHANGED renv
    /\ UNCHANGED <<qvars, pvars, nvars, svars, fvars, hvars, evars, yvars>>

\* listen(): receive() called while another listen task waits in receive()
\* on the same open socket can raise RuntimeError, which ends the task
Listen_conflict ==
    /\ rws.recv >= 2
    /\ rws.handle = "open"
    /\ rws' = [rws EXCEPT !.recv = @ - 1]
    /\ rlast' = RL("conflict", FALSE, "none")
    /\ UNCHANGED renv
    /\ UNCHANGED <<qvars, pvars, nvars, svars, fvars, hvars, evars, yvars>>

\* a Websocket.connect task created by listen() runs: it opens a socket,
\* creates another listen task and stores the socket in Websocket.__ws (an
\* open socket stored there before is no longer referred to), or it raises
\* inside the task
Reconnect_task ==
    /\ rws.conn > 0
    /\ IF renv.backend = "up"
       THEN /\ rws' = [rws EXCEPT !.conn = @ - 1, !.recv = @ + 1, !.handle = "open",
                                  !.leak = IF rws.handle = "open" THEN @ + 1 ELSE @]
            /\ rlast' = RL("reconnect", TRUE, "none")
            /\ UNCHANGED renv
       ELSE /\ rws' = [rws EXCEPT !.conn = @ - 1]
            /\ renv' = [renv EXCEPT !.fails = IF @ < MaxFails THEN @ + 1 ELSE @]
            /\ rlast' = RL("reconnect", FALSE, "none")
    /\ UNCHANGED <<qvars, pvars, nvars, svars, fvars, hvars, evars, yvars>>

InitReconnect ==
    /\ queue = <<>>
    /\ current = None
    /\ loop_type = "NONE"
    /\ qlast = [op |-> "init", arg |-> None, pre |-> None, preq |-> <<>>,
                adv |-> None, ret |-> NoTrack, raised |-> "none",
                hist |-> <<0, FALSE>>, phist |-> <<0, FALSE>>]
    /\ gets = Some(0)
    /\ held = NoTrack
    /\ heldLoose = NoTrack
    /\ pq = <<>>
    /\ pq_max = None
    /\ plast = [op |-> "init", kind |-> "none", n |-> 0, pre |-> <<>>, raised |-> "none"]
    /\ pool_nodes = [i \in Idents |-> 0]
    /\ node = [n \in NodeIds |-> NoNode]
    /\ wsock = [w \in WsIds |-> NoWs]
    /\ players = [n \in NodeIds |-> <<>>]
    /\ nlast = NLastInit
    /\ sess = NoSess
    /\ nobj = 0
    /\ link = FALSE
    /\ stats = [base |-> None, node |-> None]
    /\ tasks = <<>>
    /\ now = Epoch
    /\ upd = None
    /\ lastmsg = None
    /\ slast = SLastInit
    /\ fsink = <<>>
    /\ fghost = [k \in FilterKinds |-> 0]
    /\ fnormal = TRUE
    /\ flast = FLastInit
    /\ fupd = NoUpd
    /\ hreq = NoReq
    /\ hlast = HLastInit
    /\ rws = NoRws
    /\ renv = REnvInit
    /\ rlast = RLastInit
    /\ elisteners = [n \in ListenerNames |-> 0]
    /\ esched = <<>>
    /\ elast = ELastInit
    /\ ftasks = [t \in FilterTasks |-> NoFilterTask]
    /\ fwire = None
    /\ dsess = NoPlayer
    /\ dlast = DLastInit
    /\ ipool = [nodes |-> [i \in Idents |-> 0], built |-> 0, replaced |-> {}]
    /\ itasks = [t \in InitiateTasks |-> NoInitiate]
    /\ preset = NoPreset
    /\ prlast = PrLastInit

NextReconnect ==
    \/ Reconnect_node_connect
    \/ Peer_drop
    \/ Peer_drop_leaked
    \/ Backend_down
    \/ Backend_up
    \/ Listen_closed
    \/ Listen_retry
    \/ Listen_conflict
    \/ Reconnect_task

SpecReconnect == InitReconnect /\ [][NextReconnect]_vars

\* the event loop runs every task that can run, and a sleep ends
SpecReconnectLive ==
    /\ SpecReconnect
    /\ WF_vars(Listen_closed)
    /\ WF_vars(Listen_retry)
    /\ WF_vars(Reconnect_task)

\* Node.disconnect() on a node without players: a connected Websocket is
\* closed; BaseNode.__ws is set to None; BaseNode.__task is None (the listen
\* task is kept in another attribute), so no listen task is cancelled.  A
\* listen task waiting in receive() while the socket is closed on request
\* either gets a message it cannot decode, which ends the task (ended), or
\* finds the socket closed at its next receive().
Reconnect_node_disconnect(ended) ==
    /\ rws.node
    /\ rws' = IF RConnected(rws)
              THEN [rws EXCEPT !.node = FALSE, !.handle = "closed",
                               !.recv = IF ended THEN 0 ELSE @]
              ELSE [rws EXCEPT !.node = FALSE]
    /\ rlast' = RL("disconnect", TRUE, "none")
    /\ UNCHANGED renv
    /\ UNCHANGED <<qvars, pvars, nvars, svars, fvars, hvars, evars, yvars>>

\* A node constructed and not connected, as in InitReconnect.
InitDisconnect ==
    /\ queue = <<>>
    /\ current = None
    /\ loop_type = "NONE"
    /\ qlast = [op |-> "init", arg |-> None, pre |-> None, preq |-> <<>>,
                adv |-> None, ret |-> NoTrack, raised |-> "none",
                hist |-> <<0, FALSE>>, phist |-> <<0, FALSE>>]
    /\ gets = Some(0)
    /\ held = NoTrack
    /\ heldLoose = NoTrack
    /\ pq = <<>>
    /\ pq_max = None
    /\ plast = [op |-> "init", kind |-> "none", n |-> 0, pre |-> <<>>, raised |-> "none"]
    /\ pool_nodes = [i \in Idents |-> 0]
    /\ node = [n \in NodeIds |-> NoNode]
    /\ wsock = [w \in WsIds |-> NoWs]
    /\ players = [n \in NodeIds |-> <<>>]
    /\ nlast = NLastInit
    /\ sess = NoSess
    /\ nobj = 0
    /\ link = FALSE
    /\ stats = [base |-> None, node |-> None]
    /\ tasks = <<>>
    /\ now = Epoch
    /\ upd = None
    /\ lastmsg = None
    /\ slast = SLastInit
    /\ fsink = <<>>
    /\ fghost = [k \in FilterKinds |-> 0]
    /\ fnormal = TRUE
    /\ flast = FLastInit
    /\ fupd = NoUpd
    /\ hreq = NoReq
    /\ hlast = HLastInit
    /\ rws = NoRws
    /\ renv = REnvInit
    /\ rlast = RLastInit
    /\ elisteners = [n \in ListenerNames |-> 0]
    /\ esched = <<>>
    /\ elast = ELastInit
    /\ ftasks = [t \in FilterTasks |-> NoFilterTask]
    /\ fwire = None
    /\ dsess = NoPlayer
    /\ dlast = DLastInit
    /\ ipool = [nodes |-> [i \in Idents |-> 0], built |-> 0, replaced |-> {}]
    /\ itasks = [t \in InitiateTasks |-> NoInitiate]
    /\ preset = NoPreset
    /\ prlast = PrLastInit

NextDisconnect ==
    \/ Reconnect_node_connect
    \/ \E ended \in BOOLEAN : Reconnect_node_disconnect(ended)
    \/ Peer_drop
    \/ Peer_drop_leaked
    \/ Backend_down
    \/ Backend_up
    \/ Listen_closed
    \/ Listen_retry
    \/ Listen_conflict
    \/ Reconnect_task

SpecDisconnect == InitDisconnect /\ [][NextDisconnect]_vars

\* --------------------------------------------------------- player events
\* events.get_cls(t): the class __mapping__ holds for t.upper() ("None" when
\* it holds none)
GetCls(t) ==
    CASE t \in {"WEBSOCKET_READY", "WEBSOCKET_OPEN"} -> "WebsocketOpenEvent"
      [] t = "WEBSOCKET_CLOSED" -> "WebsocketCloseEvent"
      [] t = "TRACK_START" -> "TrackStartEvent"
      [] t = "TRACK_END" -> "TrackEndEvent"
      [] t = "TRACK_STUCK" -> "TrackStuckEvent"
      [] t = "TRACK_EXCEPTION" -> "TrackExceptionEvent"
      [] OTHER -> "None"

\* f'obsidian_{event.type.value.lower()}'
EventName(type) ==
    CASE type = "TRACK_START" -> "obsidian_track_start"
      [] type = "TRACK_END" -> "obsidian_track_end"
      [] type = "TRACK_STUCK" -> "obsidian_track_stuck"
      [] type = "TRACK_EXCEPTION" -> "obsidian_track_exception"
      [] type = "WEBSOCKET_OPEN" -> "obsidian_websocket_open"
      [] OTHER -> "obsidian_websocket_closed"

\* self.__listeners__.get(event, []): the number of listeners found
Listeners(reg, event) == IF event \in DOMAIN reg THEN reg[event] ELSE 0

\* BaseNode.dispatch_event(player, event, *args): the tasks created, one
\* running self.dispatch(player, event, *args) and one per listener found
\* under event running listener(*args)
DispatchEvent(reg, player, event, args) ==
    <<[fn |-> "dispatch", argv |-> <<player, event>> \o args]>>
        \o [i \in 1..Listeners(reg, event) |-> [fn |-> "listener", argv |-> args]]

\* Player.dispatch_event: self.node.dispatch_event(name, self, event)
NodeDispatchCall(reg, name) == DispatchEvent(reg, name, "PLAYER", <<"EVENT">>)

\* Player.dispatch_event(data): the class of the event built, the exception
\* raised and the tasks created
DispatchEventOutcome(data, reg) ==
    IF data.t = "-"
    THEN \* KeyError on data['t']: logged, return
         [built |-> "-", raised |-> "none", sched |-> <<>>]
    ELSE IF GetCls(data.t) = "None"
    THEN \* t = None; t(data)
         [built |-> "-", raised |-> "TypeError", sched |-> <<>>]
    ELSE IF data.type = "-"
    THEN \* BaseEvent.__init__ sets _type to None; event.type.value
         [built |-> GetCls(data.t), raised |-> "AttributeError", sched |-> <<>>]
    ELSE IF data.type \notin EventTypes
    THEN \* EventType(data['type'])
         [built |-> "-", raised |-> "ValueError", sched |-> <<>>]
    ELSE [built |-> GetCls(data.t), raised |-> "none",
          sched |-> NodeDispatchCall(reg, EventName(data.type))]

\* a listener is stored under name in BaseNode.__listeners__
Node_add_listener(name) ==
    /\ elisteners[name] < MaxListeners
    /\ elisteners' = [elisteners EXCEPT ![name] = @ + 1]
    /\ elast' = [ELastInit EXCEPT !.op = "add_listener"]
    /\ UNCHANGED esched
    /\ UNCHANGED <<qvars, pvars, nvars, svars, fvars, hvars, rvars, yvars>>

\* Player.dispatch_event(data), called by Node.handle_ws_response for a
\* PLAYER_EVENT message
Player_dispatch_event(data) ==
    /\ LET o == DispatchEventOutcome(data, elisteners)
       IN  /\ Len(esched) + Len(o.sched) <= MaxPending
           /\ esched' = esched \o o.sched
           /\ elast' = [op |-> "dispatch_event", data |-> data, built |-> o.built,
                        raised |-> o.raised, sched |-> o.sched]
    /\ UNCHANGED elisteners
    /\ UNCHANGED <<qvars, pvars, nvars, svars, fvars, hvars, rvars, yvars>>

\* the event loop runs the oldest task: Node.dispatch(player, event, *args)
\* calls getattr(player, event), a TypeError unless event is a string, and an
\* AttributeError, which is passed over, when the player has no such
\* attribute; a listener is called with its arguments
Event_run_task ==
    /\ esched # <<>>
    /\ LET task == Head(esched)
       IN  elast' = [ELastInit EXCEPT
                        !.op = "run_task",
                        !.sched = <<task>>,
                        !.raised = IF task.fn = "dispatch" /\ task.argv[2] = "PLAYER"
                                   THEN "TypeError" ELSE "none"]
    /\ esched' = Tail(esched)
    /\ UNCHANGED elisteners
    /\ UNCHANGED <<qvars, pvars, nvars, svars, fvars, hvars, rvars, yvars>>

InitEvents ==
    /\ queue = <<>>
    /\ current = None
    /\ loop_type = "NONE"
    /\ qlast = [op |-> "init", arg |-> None, pre |-> None, preq |-> <<>>,
                adv |-> None, ret |-> NoTrack, raised |-> "none",
                hist |-> <<0, FALSE>>, phist |-> <<0, FALSE>>]
    /\ gets = Some(0)
    /\ held = NoTrack
    /\ heldLoose = NoTrack
    /\ pq = <<>>
    /\ pq_max = None
    /\ plast = [op |-> "init", kind |-> "none", n |-> 0, pre |-> <<>>, raised |-> "none"]
    /\ pool_nodes = [i \in Idents |-> 0]
    /\ node = [n \in NodeIds |-> NoNode]
    /\ wsock = [w \in WsIds |-> NoWs]
    /\ players = [n \in NodeIds |-> <<>>]
    /\ nlast = NLastInit
    /\ sess = NoSess
    /\ nobj = 0
    /\ link = FALSE
    /\ stats = [base |-> None, node |-> None]
    /\ tasks = <<>>
    /\ now = Epoch
    /\ upd = None
    /\ lastmsg = None
    /\ slast = SLastInit
    /\ fsink = <<>>
    /\ fghost = [k \in FilterKinds |-> 0]
    /\ fnormal = TRUE
    /\ flast = FLastInit
    /\ fupd = NoUpd
    /\ hreq = NoReq
    /\ hlast = HLastInit
    /\ rws = NoRws
    /\ renv = REnvInit
    /\ rlast = RLastInit
    /\ elisteners = [n \in ListenerNames |-> 0]
    /\ esched = <<>>
    /\ elast = ELastInit
    /\ ftasks = [t \in FilterTasks |-> NoFilterTask]
    /\ fwire = None
    /\ dsess = NoPlayer
    /\ dlast = DLastInit
    /\ ipool = [nodes |-> [i \in Idents |-> 0], built |-> 0, replaced |-> {}]
    /\ itasks = [t \in InitiateTasks |-> NoInitiate]
    /\ preset = NoPreset
    /\ prlast = PrLastInit

NextEvents ==
    \/ \E name \in ListenerNames : Node_add_listener(name)
    \/ \E data \in EventData : Player_dispatch_event(data)
    \/ Event_run_task

SpecEvents == InitEvents /\ [][NextEvents]_vars

\* ------------------------------------------------ PointerBasedQueue claims
\* C1 as claimed: initiate_node called with an identifier that a registered
\* node uses (passed explicitly, or the default 'MAIN' taken when None is
\* passed) raises NodeAlreadyExists and leaves NodePool._nodes unchanged.
C1_AsClaimed ==
    (/\ nlast.op = "initiate_node"
     /\ nlast.arg # <<>>
     /\ nlast.pre_pool[Identifier(nlast.arg[1])] # 0)
        => (nlast.raised = "NodeAlreadyExists" /\ pool_nodes = nlast.pre_pool)

\* C2: from a null pointer with loop type NONE, the k-th of k consecutive
\* get() calls returns the k-th track while k <= n, and None for every k > n.
C2_GetWalksThenNone ==
    (loop_type = "NONE" /\ gets # None /\ qlast.op = "get") =>
        /\ qlast.raised = "none"
        /\ qlast.ret = IF Val(gets) <= Len(queue) THEN queue[Val(gets)] ELSE NoTrack

\* C2 witness: three tracks queued, a fifth consecutive get() has returned None.
C2_Witness ==
    /\ loop_type = "NONE" /\ gets = Some(5) /\ qlast.op = "get"
    /\ Len(queue) = 3 /\ qlast.ret = NoTrack

\* C3: from a null pointer with loop type QUEUE and n >= 1 tracks, the k-th
\* of k consecutive get() calls returns the track at index (k-1) mod n, and
\* never None.
C3_GetCycles ==
    (loop_type = "QUEUE" /\ gets # None /\ qlast.op = "get" /\ Len(queue) >= 1) =>
        /\ qlast.raised = "none"
        /\ qlast.ret # NoTrack
        /\ qlast.ret = queue[((Val(gets) - 1) % Len(queue)) + 1]

\* C3 witness: two tracks queued, the fifth consecutive get() is in its third
\* round.
C3_Witness ==
    /\ loop_type = "QUEUE" /\ gets = Some(5) /\ qlast.op = "get"
    /\ Len(queue) = 2 /\ queue[1] # queue[2] /\ qlast.ret = queue[1]

\* C4 as claimed: with loop type TRACK, once get() has returned a track T, a
\* further get() with no skip, jump, insert, remove or loop-type change in
\* between returns T and leaves the pointer unchanged.
C4_AsClaimed ==
    [][(loop_type = "TRACK" /\ heldLoose # NoTrack /\ qlast'.op = "get") =>
           (qlast'.ret = heldLoose /\ current' = current)]_vars

\* C4 as amended: with loop type TRACK, once get() has returned a track T, a
\* further get() with nothing but get() calls in between returns T and leaves
\* the pointer unchanged.
C4_GetRepeatsTrack ==
    [][(loop_type = "TRACK" /\ held # NoTrack /\ qlast'.op = "get") =>
           (qlast'.ret = held /\ qlast'.raised = "none" /\ current' = current)]_vars

\* C4 witness: under a TRACK loop a get() has returned again the track at a
\* pointer that is followed by another track, and has not moved the pointer.
C4_Witness ==
    /\ loop_type = "TRACK" /\ qlast.op = "get" /\ held # NoTrack
    /\ qlast.pre # None /\ qlast.pre = current
    /\ Val(current) >= 0 /\ Val(current) + 1 < Len(queue)
    /\ At(queue, Val(current) + 1) # held

\* C5: skip() moves the pointer from null to 0 or from p to p+1 before it
\* resolves the track, in every loop mode; and in every state whose loop type
\* is NONE or QUEUE, skip() and get() return the same track (or raise the
\* same error) and leave the same pointer.
C5_SkipAlwaysAdvances ==
    /\ qlast.op = "skip" =>
           qlast.adv = IF qlast.pre = None THEN Some(0) ELSE Some(Val(qlast.pre) + 1)
    /\ loop_type # "TRACK" =>
           SkipOutcome(queue, current, loop_type) = GetOutcome(queue, current, loop_type)

\* C5 witness: under a TRACK loop a skip() has moved the pointer on by one and
\* returned the next track.
C5_Witness ==
    /\ loop_type = "TRACK" /\ qlast.op = "skip" /\ qlast.pre # None
    /\ current = Some(Val(qlast.pre) + 1) /\ qlast.ret # NoTrack
    /\ qlast.ret = At(queue, Val(current))

C7_SendNeedsOpenSocket ==
    nlast.op = "send" =>
        LET w == node[nlast.n].ws
            open == IF w = 0 THEN FALSE ELSE wsock[w].sock = "open"
            code == IF nlast.arg[1] = <<"int", 7>> THEN 7 ELSE 11
        IN  IF open
            THEN /\ nlast.raised = "none"
                 /\ nlast.frames = <<[op |-> code, d |-> nlast.arg[2]]>>
            ELSE /\ nlast.raised = "NodeNotConnected"
                 /\ nlast.frames = <<>>

\* C7 witness: send(OpCode.PLAYER_DESTROY, d1) has written the frame
\* {op: 11, d: d1} on an open socket, on a node whose registry entry was
\* made by initiate_node.
C7_Witness ==
    /\ nlast.op = "send"
    /\ nlast.arg = <<<<"enum", "PLAYER_DESTROY">>, "d1">>
    /\ nlast.frames = <<[op |-> 11, d |-> "d1"]>>
    /\ wsock[node[nlast.n].ws].sock = "open"

\* C8 as claimed: connect() fails with an ObsidianAuthorizationFailure (which
\* is also an ObsidianConnectionFailure) when the handshake is rejected with
\* status 4001, and with an ObsidianConnectionFailure wrapping the transport
\* error on every other failure; no receive loop is started and the node is
\* not connected afterwards.
C8_AsClaimed ==
    (nlast.op = "connect" /\ nlast.hs # "ok") =>
        /\ IF nlast.hs = "WSServerHandshakeError:4001"
           THEN /\ IsInstance(nlast.raised, "ObsidianAuthorizationFailure")
                /\ IsInstance(nlast.raised, "ObsidianConnectionFailure")
           ELSE /\ IsInstance(nlast.raised, "ObsidianConnectionFailure")
                /\ nlast.original = nlast.hs
        /\ wsock[node[nlast.n].ws].recv = 0
        /\ wsock[node[nlast.n].ws].sock # "open"

\* C9 as claimed: disconnect(force) returns without error from any state and
\* with any number of sessions; afterwards the Websocket object is cleared
\* from the node and its socket is not open, every session the node owned
\* has been disconnected, and no receive loop is alive on the Websocket the
\* node held; a second disconnect() right after the first changes nothing.
C9_AsClaimed ==
    [][nlast'.op = "disconnect" =>
        /\ nlast'.raised = "none"
        /\ node'[nlast'.n].ws = 0
        /\ nlast'.pre_guilds \subseteq nlast'.done
        /\ nlast'.pre_ws # 0 =>
              /\ wsock'[nlast'.pre_ws].sock # "open"
              /\ wsock'[nlast'.pre_ws].recv = 0
        /\ (nlast.op = "disconnect" /\ nlast.n = nlast'.n) =>
              <<pool_nodes, node, wsock, players>>' = <<pool_nodes, node, wsock, players>>
      ]_vars

\* C10 as claimed: destroy(force) returns without error having disconnected
\* every session the node owned and cancelled the receive loop, and the
\* registry has no entry for the node's identifier any more (so get_node
\* finds none and initiate_node with that identifier is not refused).
C10_AsClaimed ==
    nlast.op = "destroy" =>
        /\ nlast.raised = "none"
        /\ nlast.pre_guilds \subseteq nlast.done
        /\ nlast.pre_ws # 0 => wsock[nlast.pre_ws].recv = 0
        /\ pool_nodes[node[nlast.n].ident] = 0

\* ------------------------------------------------------- session claims
\* C11 as claimed: once the node has handled a STATS message, Node.stats is
\* the snapshot built from the payload handled last.
C11_AsClaimed ==
    (slast.op = "handle_ws_response" /\ slast.arg[1] = "STATS")
        => stats.base = Some(slast.arg[2])

\* C12 as claimed: the session get_player returns is the one stored for the
\* guild afterwards, and it is of the class asked for.
C12_AsClaimed ==
    (slast.op = "get_player" /\ slast.ret # 0)
        => (slast.ret = sess.id /\ sess.cls = slast.arg[1])

\* C13: connected is true exactly when the channel is set, playing exactly
\* when connected and a current track is set, and a voice-state update with
\* no channel id clears the channel, the session id and the server-update
\* payload together, changes nothing else and sends nothing.
C13_VoiceLeftClearsTogether ==
    /\ PlayerConnected(sess) <=> sess.channel
    /\ Playing(sess) <=> (sess.channel /\ sess.current # None)
    /\ (slast.op = "voice_state_update" /\ ~slast.arg[1]) =>
          /\ ~sess.channel /\ sess.session_id = "-" /\ sess.vsu = "-"
          /\ sess = [slast.pre EXCEPT !.channel = FALSE, !.session_id = "-",
                                      !.vsu = "-"]
          /\ slast.frames = <<>>
          /\ slast.raised = "none"

\* C13 witness: a connected session holding a session id and a server-update
\* payload, with a current track, has handled a voice-state update with no
\* channel id.
C13_Witness ==
    /\ slast.op = "voice_state_update" /\ ~slast.arg[1]
    /\ slast.pre.channel /\ slast.pre.session_id # "-" /\ slast.pre.vsu # "-"
    /\ sess.current # None
    /\ ~sess.channel /\ sess.session_id = "-" /\ sess.vsu = "-"

\* C14 as claimed: set_position(ms) sends nothing and changes nothing when
\* there is no current track or ms is negative or beyond the track length;
\* otherwise, on a connected node, it sends exactly one PLAYER_SEEK and sets
\* the position to ms and the timestamp to the present time.
C14_AsClaimed ==
    slast.op = "set_position" =>
        LET ms == slast.arg[1]
        IN  IF slast.pre.current = None \/ ms < 0 \/ ms > Length
            THEN slast.frames = <<>> /\ sess = slast.pre
            ELSE slast.raised = "none" =>
                    /\ Len(slast.frames) = 1
                    /\ slast.frames[1].op = 10
                    /\ sess.position = ms
                    /\ sess.last_update = now

\* C15 as claimed: Player.position is always within [0, current.length].
C15_AsClaimed ==
    0 <= Position(sess, now) /\ Position(sess, now) <= Length

\* C16 as claimed: t milliseconds after a PLAYER_UPDATE reporting position p
\* with paused false was applied, with no call in between, Player.position of
\* a playing session is p + t whenever p + t does not exceed the track length.
C16_AsClaimed ==
    (/\ upd # None
     /\ Playing(sess)
     /\ Val(upd).position + (now - Val(upd).at) <= Length)
        => Position(sess, now) = Val(upd).position + (now - Val(upd).at)

\* C17 as claimed: once every handler task has run, the session's
\* current_track_id and paused are those of the last PLAYER_UPDATE received
\* for it.
C17_AsClaimed ==
    (tasks = <<>> /\ lastmsg # None /\ sess.id # 0)
        => /\ sess.paused = Val(lastmsg).paused
           /\ sess.track_id = Some(Val(lastmsg).track)


\* ------------------------------------------------------- FilterSink claims
\* The kinds added and not removed since, each once with the raw value added
\* last, in the fixed order of the kinds.
Listed(g) ==
    LET kept == SelectSeq(FILTERS, LAMBDA k : k \in FilterKinds /\ g[k] # 0)
    IN  [i \in DOMAIN kept |-> <<kept[i], g[kept[i]]>>]

\* C18: after add, remove (by name, class or instance) and reset calls that
\* all returned normally, to_json lists exactly the kinds added and not
\* removed since, each once with the value added last, in the fixed order of
\* the kinds; a removed kind is absent.
C18_ToJsonListsKeptKindsInOrder ==
    (fnormal /\ flast.op = "to_json") =>
        /\ flast.ret = Listed(fghost)
        /\ \A i, j \in DOMAIN flast.ret :
               flast.ret[i][1] = flast.ret[j][1] => i = j
        /\ \A k \in FilterKinds :
               fghost[k] = 0 => \A i \in DOMAIN flast.ret : flast.ret[i][1] # k

\* C18 witness: to_json after filters were added against the fixed order, one
\* kind re-added with another value, and one kind removed by name.
C18_Witness ==
    /\ fnormal
    /\ flast.op = "to_json"
    /\ Len(fsink) = 2
    /\ fsink[1].key = "equalizer"
    /\ fsink[2].key = "volume"
    /\ fghost["vibrato"] = 0
    /\ flast.ret = <<<<"volume", MaxRaw>>, <<"equalizer", 1>>>>


\* ------------------------------------------------------- HTTPClient claims
\* C19: request with max_retries = m >= 1 makes at most m attempts, returns
\* the parsed payload of the first 2xx response (the m-th included), and when
\* all m responses are non-2xx raises HTTPError carrying the last response;
\* m < 1 raises ValueError before any attempt is made.
C19_BoundedRetries ==
    LET m == hreq.max_retries
        n == Len(hreq.got)
        twoxx(r) == 200 <= r.status /\ r.status <= 299
    IN  hlast.op = "request" =>
          /\ Len(hreq.sent) = n
          /\ m >= 1 => n <= m
          /\ m < 1 <=> hlast.raised = "ValueError"
          /\ hlast.raised = "ValueError" => n = 0
          /\ hlast.raised = "pending" <=> hreq.pc = "loop"
          /\ hreq.pc = "loop" => (n < m /\ \A i \in 1..n : ~twoxx(hreq.got[i]))
          /\ hlast.raised = "none" =>
                /\ n >= 1
                /\ twoxx(hreq.got[n])
                /\ \A i \in 1..(n - 1) : ~twoxx(hreq.got[i])
                /\ hlast.ret = <<"json", hreq.got[n].body>>
          /\ hlast.raised = "HTTPError" =>
                /\ n = m
                /\ \A i \in 1..n : ~twoxx(hreq.got[i])
                /\ hlast.response = hreq.got[n]

\* C19 witness: with the largest max_retries, every attempt but the last was
\* answered non-2xx and the last 2xx, and its parsed payload was returned.
C19_Witness ==
    /\ hlast.op = "request"
    /\ hlast.raised = "none"
    /\ hreq.max_retries = MaxRetries
    /\ Len(hreq.got) = MaxRetries
    /\ hreq.got[MaxRetries].status = 299
    /\ hlast.ret = <<"json", hreq.got[MaxRetries].body>>

\* C20 as claimed: every request HTTPClient sends for loadtracks, decodetrack
\* or decodetracks, first attempt or retry, carries an Authorization header
\* whose value is the shared secret.
C20_AsClaimed ==
    hreq.via \in {"load_tracks", "decode_track", "decode_tracks"} =>
        \A i \in DOMAIN hreq.sent :
            <<"Authorization", Password>> \in hreq.sent[i].headers


\* ------------------------------------------ PointerBasedQueue pointer claims
\* the 0-based position a remove() argument names in q (-1: none)
RemovedPos(q, x) ==
    IF x[1] = "index"
    THEN (IF InRange(q, x[2]) THEN (IF x[2] >= 0 THEN x[2] ELSE Len(q) + x[2]) ELSE -1)
    ELSE FirstIndex(q, x[2]) - 1

\* the pointer before the last call referred to a track
PointedBefore ==
    IF qlast.pre = None THEN FALSE
    ELSE 0 <= Val(qlast.pre) /\ Val(qlast.pre) < Len(qlast.preq)

\* C21 as claimed: remove() on a queue whose pointer refers to a track T
\* succeeds for every removal position; removing before or after T leaves the
\* pointer referring to T, and removing T makes the track that followed it
\* the next one get() returns (None when nothing followed).
C21_AsClaimed ==
    (/\ qlast.op = "remove"
     /\ PointedBefore
     /\ RemovedPos(qlast.preq, qlast.arg) >= 0) =>
        LET p == Val(qlast.pre)
            r == RemovedPos(qlast.preq, qlast.arg)
            T == At(qlast.preq, p)
            next == GetOutcome(queue, current, "NONE")
        IN  /\ qlast.raised = "none"
            /\ current # None
            /\ r # p => /\ InRange(queue, Val(current))
                        /\ Val(current) >= 0
                        /\ At(queue, Val(current)) = T
            /\ r = p => /\ next.raised = "none"
                        /\ next.ret = IF p + 1 < Len(qlast.preq)
                                      THEN At(qlast.preq, p + 1) ELSE NoTrack

\* C22 as claimed: insert(index, track) on a queue whose pointer p refers to
\* a track T increments the pointer exactly when index <= p, and afterwards
\* the pointer still refers to T, for every index.
C22_AsClaimed ==
    (qlast.op = "insert" /\ PointedBefore) =>
        LET p == Val(qlast.pre)
        IN  /\ qlast.raised = "none"
            /\ current = (IF qlast.arg[1] <= p THEN Some(p + 1) ELSE Some(p))
            /\ At(queue, Val(current)) = At(qlast.preq, p)

\* C23 as claimed: jump(index) sets the pointer to index and returns the
\* track there when 0 <= index < count, and raises IndexError for every
\* other index.
C23_AsClaimed ==
    qlast.op = "jump" =>
        IF 0 <= qlast.arg[1] /\ qlast.arg[1] < Len(queue)
        THEN /\ qlast.raised = "none"
             /\ current = Some(qlast.arg[1])
             /\ qlast.ret = At(queue, qlast.arg[1])
        ELSE qlast.raised = "IndexError"

\* C24 as claimed: the pointer is null, or a valid index 0..count-1, or equal
\* to count; never negative and never further past the end.
C24_AsClaimed ==
    IF current = None THEN TRUE
    ELSE 0 <= Val(current) /\ Val(current) <= Len(queue)


\* ------------------------------------------------------ reconnection claims
\* C25 as claimed: at every moment a node has at most one live WebSocket and
\* at most one receive loop, and connected is true exactly when the handle is
\* present and open.
C25_AsClaimed ==
    /\ (IF rws.handle = "open" THEN 1 ELSE 0) + rws.leak <= 1
    /\ rws.recv + rws.sleep <= 1
    /\ RConnected(rws) <=> (rws.node /\ rws.handle = "open")

\* C26: after a CLOSED read the receive loop sleeps and then starts a
\* reconnection attempt exactly if the Websocket is still not connected; no
\* failed reconnection attempt raises to a caller; and, whatever the number
\* of failed attempts, once the backend accepts connections for good a loop
\* that has read CLOSED leads to a connected node.
C26_ReconnectsWithoutCeiling ==
    /\ [][(rws'.sleep < rws.sleep) =>
            rws'.conn = rws.conn + (IF rws.handle # "open" THEN 1 ELSE 0)]_vars
    /\ [](rlast.op = "reconnect" => rlast.caller = "none")
    /\ (<>[](renv.backend = "up")) =>
           ((rws.sleep > 0) ~> (rws.node /\ rws.handle = "open"))

\* C26 witness: the node is connected again by a reconnection task after the
\* most failed attempts that are counted.
C26_Witness ==
    /\ rlast.op = "reconnect"
    /\ rlast.ok
    /\ renv.drops >= 1
    /\ renv.fails = MaxFails
    /\ rws.node /\ rws.handle = "open"


\* ---------------------------------------------------- voice update claims
\* the last call was a voice-state or a voice-server update
VoiceUpdated == slast.op \in {"voice_state_update", "voice_server_update"}
BothPresent == sess.session_id # "-" /\ sess.vsu # "-"
VoiceFrame == [op |-> 0, d |-> <<"voice", sess.session_id, sess.vsu>>]

\* C27 as claimed: after a voice-server or voice-state update one
\* SUBMIT_VOICE_UPDATE carrying the session id and the server-update payload
\* is sent exactly when both are present after the update; otherwise nothing
\* is sent; no error is raised.
C27_AsClaimed ==
    VoiceUpdated =>
        /\ slast.raised = "none"
        /\ slast.frames = IF BothPresent THEN <<VoiceFrame>> ELSE <<>>

\* C27: on a connected node, after a voice-server or voice-state update one
\* SUBMIT_VOICE_UPDATE carrying the session id and the server-update payload
\* is sent exactly when both are present after the update, and otherwise
\* nothing is sent and nothing raised; on a node that is not connected with
\* both present the send raises NodeNotConnected and nothing is sent.
C27_SubmitWhenBothPresent ==
    VoiceUpdated =>
        /\ (link /\ BothPresent) =>
               (slast.raised = "none" /\ slast.frames = <<VoiceFrame>>)
        /\ ~BothPresent => (slast.raised = "none" /\ slast.frames = <<>>)
        /\ (~link /\ BothPresent) =>
               (slast.raised = "NodeNotConnected" /\ slast.frames = <<>>)

\* C27 witness: a voice-server update on a connected node completed the
\* credentials and the command was sent.
C27_Witness ==
    /\ slast.op = "voice_server_update"
    /\ link
    /\ sess.session_id = "s2"
    /\ sess.vsu = "v1"
    /\ slast.frames = <<VoiceFrame>>


\* ------------------------------------------------------ player event claims
\* the kinds of event the specification knows
KnownKinds == EventTypes

\* C28 as claimed: a PLAYER_EVENT whose type string is not a known kind is
\* dropped: no event is built, no task for the hook or a listener is created,
\* and the handler raises nothing.
C28_AsClaimed ==
    (/\ elast.op = "dispatch_event"
     /\ elast.data.t \notin KnownKinds
     /\ elast.data.type \notin KnownKinds) =>
        /\ elast.raised = "none"
        /\ elast.built = "-"
        /\ elast.sched = <<>>

\* C29 as claimed: for a PLAYER_EVENT of a known kind the dispatch hook and
\* every listener registered under the event's name are each scheduled once,
\* with the player and the event built.
C29_AsClaimed ==
    (/\ elast.op = "dispatch_event"
     /\ elast.data.t \in KnownKinds
     /\ elast.data.type = elast.data.t) =>
        LET name == EventName(elast.data.type)
        IN  /\ elast.raised = "none"
            /\ elast.built = GetCls(elast.data.t)
            /\ Len(elast.sched) = 1 + elisteners[name]
            /\ elast.sched[1] = [fn |-> "dispatch", argv |-> <<"PLAYER", name, "EVENT">>]
            /\ \A i \in 2..Len(elast.sched) :
                   elast.sched[i].fn = "listener" /\ "EVENT" \in
                       {elast.sched[i].argv[j] : j \in DOMAIN elast.sched[i].argv}

\* C30: after each filter operation of a session on a connected node
\* (set_volume with a volume the filter accepts, set_equalizer, add_filter,
\* remove_filter by kind name, class or instance, reset_filters, set_filters)
\* exactly one PLAYER_FILTERS command has been sent, and its payload is the
\* guild id as a string plus the serialization of the sink as the operation
\* left it.
PlayerFilterOps ==
    {"set_volume", "set_equalizer", "set_filters", "add_filter", "remove_filter",
     "reset_filters"}
C30_AsClaimed ==
    (flast.op \in PlayerFilterOps /\ fupd.conn /\ flast.raised # "ValueError") =>
        fupd.frames = <<[op |-> 9, d |-> [guild_id |-> "42", filters |-> ToJson(fsink)]]>>

\* ------------------------------------------ late additions to the queue
\* C37 as claimed: under loop type NONE, once get() has returned None and
\* tracks have then been added at the right end, the next get() returns the
\* first track that get() never returned.
C37_AsClaimed ==
    (/\ qlast.op = "get"
     /\ loop_type = "NONE"
     /\ qlast.phist # None
     /\ IF qlast.phist # None THEN qlast.phist[2] /\ qlast.phist[1] < Len(qlast.preq)
        ELSE FALSE)
        => /\ qlast.raised = "none"
           /\ qlast.ret = qlast.preq[qlast.phist[1] + 1]

\* C38 as claimed: with a null pointer, insert() and remove() of a track or
\* index the sequence has complete without error, perform the insertion or
\* removal and leave the pointer null; one that raises leaves the sequence
\* as it was.
C38_AsClaimed ==
    (qlast.op \in {"insert", "remove"} /\ qlast.pre = None) =>
        /\ qlast.op = "insert" =>
              /\ qlast.raised = "none"
              /\ queue = InsertAt(qlast.preq, qlast.arg[1], qlast.arg[2])
        /\ (qlast.op = "remove" /\ QueueRemove(qlast.preq, qlast.arg).raised = "none") =>
              /\ qlast.raised = "none"
              /\ queue = QueueRemove(qlast.preq, qlast.arg).q
        /\ current = None
        /\ qlast.raised # "none" => queue = qlast.preq

\* C39 as claimed: a jump() that raises an indexing error leaves the pointer
\* at the value it had before the call.
C39_AsClaimed ==
    (qlast.op = "jump" /\ qlast.raised = "IndexError") => current = qlast.pre

\* ------------------------------------------------ further session claims
\* C36 as claimed: in every reachable state a session whose voice channel is
\* null holds neither a session id nor a server-update payload.
C36_AsClaimed ==
    (sess.id # 0 /\ ~sess.channel) => (sess.session_id = "-" /\ sess.vsu = "-")

\* C35 as claimed: a filter operation of a session that fails with
\* NodeNotConnected leaves the filter sink as it was before the call.
C35_AsClaimed ==
    [][(flast'.op \in PlayerFilterOps /\ flast'.raised = "NodeNotConnected")
           => fsink' = fsink]_vars

\* ------------------------------------------ concurrent filter operations
\* whether the sink holds the edit e
EditHeld(e) ==
    IF e.op = "add_filter"
    THEN HasKey(fsink, e.kind) /\ GetItem(fsink, e.kind) = [kind |-> e.kind, raw |-> e.raw]
    ELSE IF e.op = "remove_filter" THEN ~HasKey(fsink, e.kind)
    ELSE TRUE
\* two edits neither of which is meant to undo the other
Independent(e1, e2) ==
    /\ e1.op # "reset_filters" /\ e2.op # "reset_filters"
    /\ e1.kind # e2.kind
\* two operations called on a connected node, the second while the first was
\* suspended, are both over
BothOver ==
    /\ \A t \in FilterTasks : ftasks[t].pc = "done" /\ ftasks[t].raised # "NodeNotConnected"
    /\ \E t \in FilterTasks : ftasks[t].over

\* C31 as claimed: after two filter operations of a session that ran
\* concurrently on a connected node are both over, the sink holds both edits
\* and the last PLAYER_FILTERS frame written is the serialization of the sink.
C31_AsClaimed ==
    BothOver =>
        /\ fwire = Some(ToJson(fsink))
        /\ Independent(ftasks[1].edit, ftasks[2].edit) =>
               \A t \in FilterTasks : EditHeld(ftasks[t].edit)

\* ------------------------------------------------------ destroying a player
\* C32 as claimed: destroy(force) on a voice-connected session stored in the
\* map of a connected node sends PLAYER_DESTROY once, removes the session
\* from the map and returns without error; a second destroy() is no error.
C32_AsClaimed ==
    (/\ dlast.op = "destroy"
     /\ dlast.conn
     /\ dlast.pre.channel /\ dlast.pre.protocol) =>
        /\ dlast.raised = "none"
        /\ ~dsess.stored
        /\ Len(SelectSeq(dlast.frames, LAMBDA f : f.op = 11)) = 1

\* ------------------------------------------------ concurrent registration
\* C33 as claimed: when two initiate_node calls for one identifier overlap
\* (the second made while the first is connecting), at most one of them
\* registers a node and returns it, and no registered node is replaced.
C33_AsClaimed ==
    (/\ \A t \in InitiateTasks : itasks[t].pc = "done"
     /\ itasks[1].id = itasks[2].id
     /\ \E t \in InitiateTasks : itasks[t].over) =>
        /\ Cardinality({t \in InitiateTasks : itasks[t].raised = "none"}) <= 1
        /\ ipool.replaced = {}

\* ------------------------------------------------- disconnect on request
\* C34 as claimed: once Node.disconnect() has returned, and until connect()
\* is called, no socket of the node is open: the node does not reconnect.
C34_AsClaimed == ~rws.node => rws.handle # "open"

\* ---------------------------------------------------- the exhausted queue
\* C40 as claimed: when do_next() or skip() of a PresetPlayer gets no track
\* from the queue, nothing is sent, no error is raised, and a destroy task is
\* left pending that is due when the wait timeout given at construction has
\* elapsed.
C40_AsClaimed ==
    (prlast.op \in {"do_next", "skip"} /\ prlast.track = NoTrack) =>
        /\ prlast.raised = "none"
        /\ prlast.frames = <<>>
        /\ preset.due = Some(preset.clock + preset.given)

====
